---- MODULE Spec2Model ----
(***************************************************************************)
(* A model of the orchestration engine of MiniGrok Swarm                   *)
(* (src/core/swarm.py): MiniGrokSwarm.run with its worker pool, collector, *)
(* cancellation flag and synthesis phase, and the tool-calling loop of     *)
(* _run_agent.                                                             *)
(*                                                                         *)
(* Spec      : one MiniGrokSwarm.run, launched from the GUI thread, with   *)
(*             cancel() arriving from another thread at any moment.  The   *)
(*             Agent Loop of each worker is followed round by round.       *)
(* SpecAgent : one call of _run_agent with its full message sequence.      *)
(***************************************************************************)
EXTENDS Naturals, Sequences, FiniteSets, TLC

\* ------------------------------------------------------------ bounds
MaxRoles == 2       \* role lists of 1..MaxRoles roles
MaxKeys == 2        \* credential lists of 1..MaxKeys keys
MaxToolRounds == 2  \* round budgets of 1..MaxToolRounds
MaxToolCalls == 2   \* tool calls carried by one backend response
MaxLines == 3       \* lines of a streamed response
MaxRounds == 2      \* max_rounds of a research loop
MaxTokens == 5      \* tokens of a catalog text

\* ------------------------------------------------- configuration data
\* config.AGENT_ROLES: the role names of a tier, in order.
AGENT_ROLES == << "Researcher", "Planner", "Coder", "Tester",
                  "Optimizer", "Security", "Integrator", "QA" >>

\* The non-blank keys handed to the constructor, in order.
KeyPool == << "xai-1", "xai-2", "xai-3", "xai-4" >>

\* Python's None, as it appears where the model holds texts.
None == "<None>"

VARIABLES
    \* ---- MiniGrokSwarm object
    roles,          \* self.roles: sequence of role names
    api_keys,       \* self.api_keys: sequence of credentials
    max_tool_rounds,\* self.max_tool_rounds
    _cancelled,     \* self._cancelled
    \* ---- MiniGrokSwarm.run, the calling thread
    pc,             \* position of the thread that runs run()
    submitted,      \* number of futures submitted so far
    yielded,        \* futures as_completed has already yielded
    agent_outputs,  \* the dict agent_outputs, in insertion order
    merged,         \* the sections of the document sent to synthesis
    result,         \* the dict run returns
    \* ---- the workers (_run_single, one per role)
    wpc,            \* position of each worker
    key,            \* the local `key` of each worker
    round,          \* per worker: rounds of its Agent Loop performed so far
    output,         \* per worker: the local `output`
    future,         \* per worker: its Future (state and result)
    \* ---- history of the run
    usedKeys,       \* per worker: the credentials its backend calls used
    sawCancel,      \* per worker: the flag's value when the worker began
    loopReturned,   \* per worker: its call of _run_agent returned a text
    cancelLog,      \* what the cancel() invocations of this run met
    \* ---- one call of _run_agent
    role_name,      \* the parameter role_name
    context,        \* the parameter context
    messages,       \* the local list `messages`
    apc,            \* position: "idle", "loop", "returned" or "raised"
    calls,          \* backend calls made so far
    returned,       \* the value _run_agent returned
    nextId,         \* the backend's numbering of its tool-call requests
    received,       \* the ids of the tool-call requests received so far
    sent,           \* history: the sequence the last backend call received
    tool_events,    \* history: the on_status and execute_tool calls, in order
    \* ---- one streaming call of _call_grok or _call_ollama
    backend,        \* which of the two functions is called
    resp,           \* the lines of the response, in arrival order
    pos,            \* the lines the for loop has taken from resp
    tokens,         \* the arguments of the on_token invocations, in order
    full_text,      \* the local list full_text
    spc,            \* position: "idle", "opened", "reading", "ended", "body",
                    \* "returned", "failed" (an error dict), "raised"
    reply,          \* result["reply"] of the returned dict
    on_token,       \* whether the caller passed a callback as on_token
    \* ---- MiniGrokSwarm.run_research_loop
    max_rounds,     \* the parameter max_rounds
    on_round,       \* the parameter on_round: a callback, or None
    round_num,      \* the loop variable round_num, 0 before the loop
    current_task,   \* the local current_task: the subtopic of the round
    scraper_output, \* the local scraper_output of the round
    catalog_result, \* the local result: what the last catalog call returned
    output_text,    \* the text of the last catalog written, as tokens
    raw_file,       \* the raw data file of each round, on disk
    files_created,  \* the local list files_created
    all_summaries,  \* the local list all_summaries: the rounds summarised
    index_listing,  \* the files the master index lists, once written
    rresult,        \* the dict run_research_loop returns
    rpc,            \* position of the thread in run_research_loop
    events,         \* history: on_round invocations and first backend calls
    \* ---- _request_confirmation and SwarmApp._confirm_tool_action
    _confirm_lock,  \* the holder of the module's lock, 0 when free
    cpc,            \* position of each tool thread in _request_confirmation
    asked,          \* the calls of _confirm_tool_action each thread made
    granted,        \* what the last call of each thread returned
    after_queue,    \* the _show callbacks handed to the GUI thread
    dialogs,        \* the _show calls in progress, innermost last
    answered,       \* the calls whose event is set
    confirmed,      \* the calls whose result[0] is True
    \* ---- SwarmTools, one tool call, and the safety setting of the GUI
    safety_level,   \* SwarmTools.safety_level
    safety_menu,    \* the setting selected in the GUI (_get_safety_key)
    _confirm_callback, \* whether a confirmation callback is registered
    HAS_PYAUTOGUI,  \* the module flag: pyautogui was imported
    HAS_OCR,        \* the module flag: pytesseract and Pillow were imported
    _running,       \* SwarmApp._running: a run is in progress
    tpc,            \* position of the tool call: "idle", "level", "dialog",
                    \* "act", "returned"
    tool,           \* the tool called and, for the shell, its command
    levels,         \* history: the values safety_level had during the call
    confirmation,   \* history: "none", "pending", "allowed", "denied"
    tool_result,    \* the dict the tool returned
    acted,          \* history: the call performed its action on the machine
    locked,         \* history: Deny & Lock was chosen and the user has not
                    \* changed the setting since
    \* ---- execute_tool and ToolLogger
    _entries,       \* ToolLogger._entries
    lpc,            \* position of each tool thread in execute_tool
    invoked,        \* the tool name each thread called execute_tool with
    func_outcome,   \* what func(args) did in the call of each thread
    tool_returned,  \* the dict the last invocation of each thread returned
    invocations,    \* history: invocations returned since the last clear
    \* ---- MiniGrokSwarm.__init__
    given_keys,     \* the argument api_keys of the constructor
    opc             \* the object: "new", "constructed", "raised"

swarmVars == << roles, api_keys, max_tool_rounds, _cancelled, pc, submitted,
                yielded, agent_outputs, merged, result, wpc, key, round,
                output, future, usedKeys, sawCancel, loopReturned,
                cancelLog >>

agentVars == << role_name, context, messages, apc, calls, returned, nextId,
                received, sent, tool_events >>

streamVars ==
    << backend, resp, pos, tokens, full_text, spc, reply, on_token >>

\* The variables of the calls that are followed on their own.
researchVars == << max_rounds, on_round, round_num, current_task,
                   scraper_output, catalog_result, output_text, raw_file,
                   files_created,
                   all_summaries, index_listing, rresult, rpc, events >>

confirmVars == << _confirm_lock, cpc, asked, granted, after_queue, dialogs,
                  answered, confirmed >>

safetyVars == << safety_level, safety_menu, _confirm_callback, HAS_PYAUTOGUI,
                 HAS_OCR, _running, tpc, tool, levels, confirmation,
                 tool_result, acted, locked >>

logVars == << _entries, lpc, invoked, func_outcome, tool_returned,
             invocations >>

gatewayVars == << safetyVars, logVars >>

ctorVars == << given_keys, opc >>

asideVars == << streamVars, researchVars, confirmVars, gatewayVars, ctorVars >>

vars == << swarmVars, agentVars, asideVars >>

N == Len(roles)
Workers == 1 .. N

\* ------------------------------------------------------------ helpers
\* f"[{role_name} ERROR] {what}"
ErrorText(role, what) == "[" \o role \o " ERROR] " \o what

\* An assignment that hands every role the first key.
KeyAt_first(keys, i) == keys[1]

\* keys[i % len(keys)] for the 0-based position i of a role.
KeyAt(keys, i) == keys[(i % Len(keys)) + 1]

\* The workers that are inside _run_agent and have not finished a round;
\* the first of them, NoLoop when there is none.
InFirstRound == { i \in Workers : wpc[i] = "loop" /\ round[i] = 0 }
NoLoop == 0
FirstInLoop ==
    IF InFirstRound = {} THEN NoLoop
    ELSE CHOOSE i \in InFirstRound : \A j \in InFirstRound : i <= j

\* The futures that are complete, and those that hold a result.
Completed == { i \in Workers : future[i] # "pending" }
Returned == { i \in Workers : future[i] = "result" }

\* The keys of the dict agent_outputs.
OutputRoles == { agent_outputs[j][1] : j \in 1 .. Len(agent_outputs) }

\* agent_outputs[name] = out on an insertion-ordered dict.
DictSet(d, name, out) ==
    IF \E j \in 1 .. Len(d) : d[j][1] = name
    THEN [ j \in 1 .. Len(d) |-> IF d[j][1] = name THEN << name, out >> ELSE d[j] ]
    ELSE Append(d, << name, out >>)

\* ---------------------------------------------------- the backend
\* The texts a tool-calling response carries as message.get("content", ""):
\* a text, the empty text, or null.
Contents == { "draft", "", None }

\* The argument payloads of a tool call: well-formed JSON, or not.
ArgPayloads == { "{\"path\": \"notes.txt\"}", "{oops" }

\* The payloads of the 1..MaxToolCalls tool calls a response may carry; the
\* backend numbers its requests, the first one of a response with firstId.
PayloadLists == UNION { [ 1 .. n -> ArgPayloads ] : n \in 1 .. MaxToolCalls }

ToolCallsOf(firstId, payloads) ==
    [ j \in 1 .. Len(payloads) |->
        [ id |-> firstId + j - 1,
          function |-> [ name |-> "read_file", arguments |-> payloads[j] ] ] ]

\* The tool-call requests the tool handling is followed on: a file that
\* is read, a payload that is malformed, null, or JSON but not a map, a
\* command of the blocklist, a command the human declines.
Undecodable == { "{oops", None, "[1, 2]" }
Requests ==
    { [ name |-> "read_file", arguments |-> a ] :
        a \in { "{\"path\": \"notes.txt\"}" } \cup Undecodable }
    \cup { [ name |-> "run_powershell", arguments |-> a ] :
             a \in { "{\"cmd\": \"format c:\"}", "{\"cmd\": \"dir\"}" } }
RequestLists == UNION { [ 1 .. n -> Requests ] : n \in 1 .. MaxToolCalls }

ToolCallsFor(firstId, requests) ==
    [ j \in 1 .. Len(requests) |->
        [ id |-> firstId + j - 1, function |-> requests[j] ] ]

\* What _call_grok returns when the tool handling is followed: an error, a
\* reply, or the tool calls of a request list.
ToolResults(firstId) ==
    { [ success |-> FALSE, error |-> "HTTP 500: overloaded" ] }
    \cup { [ success |-> TRUE, reply |-> "answer" ] }
    \cup { [ success |-> TRUE, tool_calls |-> ToolCallsFor(firstId, r),
             content |-> "draft" ] : r \in RequestLists }

\* What _call_grok returns for a non-streaming call, the tool-calling
\* responses drawn from the given payload lists and contents.
GrokResults(firstId, payloadLists, contents) ==
    { [ success |-> FALSE, error |-> "HTTP 500: overloaded" ] }
    \cup { [ success |-> TRUE, reply |-> "answer" ] }
    \cup { [ success |-> TRUE, tool_calls |-> ToolCallsOf(firstId, p),
             content |-> c ] : p \in payloadLists, c \in contents }

\* The responses the workers of a swarm run receive: the rounds of a worker
\* depend on the number of tool calls only, not on payloads or contents.
SwarmResults ==
    GrokResults(1, { [ j \in 1 .. n |-> "{}" ] : n \in 1 .. MaxToolCalls },
                { "draft" })

HasToolCalls(res) == "tool_calls" \in DOMAIN res

\* result.get("reply", result.get("content", "[Max tool rounds]")) for the
\* result of the last round.
ExhaustedValue(res) ==
    IF "reply" \in DOMAIN res THEN res.reply
    ELSE IF "content" \in DOMAIN res THEN res.content
    ELSE "[Max tool rounds]"

NoOutput == "<unset>"

\* for _round in range(max_tool_rounds): whether a round follows `done` rounds.
RoundsLeft(done, budget) == done < budget

\* How one round of _run_agent ends, for the result res of its backend call.
\* fault: an exception escaped while the tool calls were handled (a status
\* callback that raises, a tool call without its fields).  done: the rounds
\* performed before this one.
RoundOutcome(role, res, fault, done, budget) ==
    IF ~ res.success
    THEN [ kind |-> "return", text |-> ErrorText(role, res.error) ]
    ELSE IF HasToolCalls(res)
    THEN IF fault
         THEN [ kind |-> "raise", text |-> "exception" ]
         ELSE IF RoundsLeft(done + 1, budget)
         THEN [ kind |-> "continue", text |-> NoOutput ]
         ELSE [ kind |-> "return", text |-> ExhaustedValue(res) ]
    ELSE [ kind |-> "return", text |-> res.reply ]

\* No streaming call is followed on its own.
StreamIdle ==
    /\ backend = "none"
    /\ resp = << >>
    /\ pos = 0
    /\ tokens = << >>
    /\ full_text = << >>
    /\ spc = "idle"
    /\ reply = NoOutput
    /\ on_token = FALSE

\* No research loop is followed.
ResearchIdle ==
    /\ max_rounds = 1
    /\ on_round = None
    /\ round_num = 0
    /\ current_task = NoOutput
    /\ scraper_output = [ isNone |-> TRUE, text |-> << >> ]
    /\ catalog_result = [ kind |-> "none" ]
    /\ output_text = << >>
    /\ raw_file = [ n \in 1 .. MaxRounds |-> [ exists |-> FALSE, size |-> 0 ] ]
    /\ files_created = << >>
    /\ all_summaries = << >>
    /\ index_listing = << >>
    /\ rresult = [ kind |-> "none" ]
    /\ rpc = "idle"
    /\ events = << >>

\* ------------------------------------------------ the confirmation gate
\* The tool threads that may ask for a confirmation, and the calls of
\* _confirm_tool_action: the k-th call of thread t has its own result and
\* its own event.
Threads == 1 .. MaxRoles
CallOf(t) == << t, asked[t] >>

\* ---- the tool gateway
READ_ONLY == "read_only"
CONFIRMED == "confirmed"
FULL_AUTO == "full_auto"
SafetyLevels == { READ_ONLY, CONFIRMED, FULL_AUTO }

NoTool == [ name |-> "<none>", cmd |-> << >> ]
NoToolResult == [ success |-> FALSE, error |-> "<unset>" ]

\* No tool is called: the safety setting is the default one.
SafetyIdle ==
    /\ safety_level = CONFIRMED
    /\ safety_menu = CONFIRMED
    /\ _confirm_callback = FALSE
    /\ HAS_PYAUTOGUI = TRUE
    /\ HAS_OCR = TRUE
    /\ _running = FALSE
    /\ tpc = "idle"
    /\ tool = NoTool
    /\ levels = { }
    /\ confirmation = "none"
    /\ tool_result = NoToolResult
    /\ acted = FALSE
    /\ locked = FALSE

\* execute_tool is not called: the log is empty.
LogIdle ==
    /\ _entries = << >>
    /\ lpc = [ t \in Threads |-> "idle" ]
    /\ invoked = [ t \in Threads |-> "<none>" ]
    /\ func_outcome = [ t \in Threads |-> "<none>" ]
    /\ tool_returned = [ t \in Threads |-> NoToolResult ]
    /\ invocations = 0

GatewayIdle == SafetyIdle /\ LogIdle

\* The swarm was constructed from the list of keys it holds.
CtorIdle == given_keys = api_keys /\ opc = "constructed"

\* No tool thread asks for anything.
ConfirmIdle ==
    /\ _confirm_lock = 0
    /\ cpc = [ t \in Threads |-> "idle" ]
    /\ asked = [ t \in Threads |-> 0 ]
    /\ granted = [ t \in Threads |-> FALSE ]
    /\ after_queue = << >>
    /\ dialogs = << >>
    /\ answered = {}
    /\ confirmed = {}

\* ------------------------------------------------------ MiniGrokSwarm

\* No call of _run_agent is followed on its own.
AgentIdle ==
    /\ role_name = NoOutput
    /\ context = ""
    /\ messages = << >>
    /\ apc = "idle"
    /\ calls = 0
    /\ returned = NoOutput
    /\ nextId = 1
    /\ received = << >>
    /\ sent = << >>
    /\ tool_events = << >>

\* The state once the GUI thread has constructed the swarm and started the
\* thread that will call run().
Init ==
    /\ AgentIdle
    /\ StreamIdle
    /\ ResearchIdle
    /\ ConfirmIdle
    /\ GatewayIdle
    /\ \E n \in 1 .. MaxRoles : roles = SubSeq(AGENT_ROLES, 1, n)
    /\ \E k \in 1 .. MaxKeys : api_keys = SubSeq(KeyPool, 1, k)
    /\ max_tool_rounds \in 1 .. MaxToolRounds
    /\ _cancelled = FALSE
    /\ pc = "launched"
    /\ submitted = 0
    /\ yielded = {}
    /\ agent_outputs = << >>
    /\ merged = << >>
    /\ result = [ kind |-> "none" ]
    /\ wpc = [ i \in 1 .. MaxRoles |-> "new" ]
    /\ key = [ i \in 1 .. MaxRoles |-> NoOutput ]
    /\ round = [ i \in 1 .. MaxRoles |-> 0 ]
    /\ output = [ i \in 1 .. MaxRoles |-> NoOutput ]
    /\ future = [ i \in 1 .. MaxRoles |-> "pending" ]
    /\ usedKeys = [ i \in 1 .. MaxRoles |-> {} ]
    /\ sawCancel = [ i \in 1 .. MaxRoles |-> FALSE ]
    /\ loopReturned = [ i \in 1 .. MaxRoles |-> FALSE ]
    /\ cancelLog = [ requested |-> FALSE, early |-> FALSE, done |-> {},
                     inflight |-> NoLoop ]
    /\ CtorIdle

\* cancel(), from any thread, while the GUI still holds the swarm.
\* cancelLog notes: requested, a cancel() after the launch and before the
\* check that precedes synthesis; early, a cancel() after run() began and
\* before any worker completed; done, the workers that had completed with
\* an outcome at the latest cancel() of phase one; inflight, a worker whose
\* Agent Loop was in its first round when the flag of this run was set.
Cancel ==
    /\ opc = "constructed"
    /\ pc \notin { "returned", "raised" }
    /\ _cancelled' = TRUE
    /\ cancelLog' =
         IF pc = "launched" THEN [ cancelLog EXCEPT !.requested = TRUE ]
         ELSE IF pc \in { "submit", "collect", "join" }
         THEN [ requested |-> TRUE,
                early |-> cancelLog.early \/ Completed = {},
                done |-> Returned,
                inflight |-> IF _cancelled THEN cancelLog.inflight
                             ELSE FirstInLoop ]
         ELSE cancelLog
    /\ UNCHANGED << agentVars, asideVars, loopReturned >>
    /\ UNCHANGED << roles, api_keys, max_tool_rounds, pc, submitted, yielded,
                    agent_outputs, merged, result, wpc, key, round, output,
                    future, usedKeys, sawCancel >>

\* run(): self._cancelled = False; agent_outputs = {}.
RunStart ==
    /\ pc = "launched"
    /\ _cancelled' = FALSE
    /\ agent_outputs' = << >>
    /\ pc' = "submit"
    /\ UNCHANGED << agentVars, asideVars, loopReturned >>
    /\ UNCHANGED << roles, api_keys, max_tool_rounds, submitted, yielded,
                    merged, result, wpc, key, round, output, future,
                    usedKeys, sawCancel, cancelLog >>

\* workers = max(len(self.roles), 2): the threads of the pool; a unit of
\* work holds one from the start of _run_single to its end.
PoolSize == IF N > 2 THEN N ELSE 2
Running == { i \in Workers : wpc[i] \in { "loop", "finish" } }

\* A submission that stops after the first role.
Submit_first ==
    /\ pc = "submit"
    /\ submitted' = submitted + 1
    /\ wpc' = [ wpc EXCEPT ![submitted + 1] = "queued" ]
    /\ pc' = "collect"
    /\ UNCHANGED << agentVars, asideVars, loopReturned >>
    /\ UNCHANGED << roles, api_keys, max_tool_rounds, _cancelled, yielded,
                    agent_outputs, merged, result, key, round, output, future,
                    usedKeys, sawCancel, cancelLog >>

\* executor.submit(_run_single, i, name, focus), one role after the other.
Submit ==
    /\ pc = "submit"
    /\ submitted' = submitted + 1
    /\ wpc' = [ wpc EXCEPT ![submitted + 1] = "queued" ]
    /\ pc' = IF submitted + 1 = N THEN "collect" ELSE "submit"
    /\ UNCHANGED << agentVars, asideVars, loopReturned >>
    /\ UNCHANGED << roles, api_keys, max_tool_rounds, _cancelled, yielded,
                    agent_outputs, merged, result, key, round, output, future,
                    usedKeys, sawCancel, cancelLog >>

\* _run_single up to the call of _run_agent: the check of the flag, the
\* choice of the key, the "Working..." status callback (which may raise).
WorkerStart(i) ==
    /\ wpc[i] = "queued"
    /\ Cardinality(Running) < PoolSize
    /\ sawCancel' = [ sawCancel EXCEPT ![i] = _cancelled ]
    /\ IF _cancelled
       THEN /\ output' = [ output EXCEPT ![i] = "[Cancelled]" ]
            /\ future' = [ future EXCEPT ![i] = "result" ]
            /\ wpc' = [ wpc EXCEPT ![i] = "done" ]
            /\ key' = key
       ELSE \E raises \in BOOLEAN :
            /\ key' = [ key EXCEPT ![i] = KeyAt(api_keys, i - 1) ]
            /\ future' = [ future EXCEPT ![i] =
                             IF raises THEN "exception" ELSE @ ]
            /\ wpc' = [ wpc EXCEPT ![i] = IF raises THEN "done" ELSE "loop" ]
            /\ output' = output
    /\ UNCHANGED << agentVars, asideVars, loopReturned >>
    /\ UNCHANGED << roles, api_keys, max_tool_rounds, _cancelled, pc,
                    submitted, yielded, agent_outputs, merged, result, round,
                    usedKeys, cancelLog >>

\* The worker leaves _run_agent with `text` as its output: the text the
\* loop returned, or the error text made of the exception it raised.
LoopReturns(i, text, raised) ==
    /\ output' = [ output EXCEPT ![i] = text ]
    /\ wpc' = [ wpc EXCEPT ![i] = "finish" ]
    /\ round' = [ round EXCEPT ![i] = 0 ]
    /\ loopReturned' = [ loopReturned EXCEPT ![i] = ~ raised ]

\* One round of the Agent Loop of worker i: the backend call with the
\* worker's key and, for a response with tool calls, the tool invocations.
\* An exception (the backend's body read, a status callback, a malformed
\* tool call) leaves _run_agent and is caught in _run_single.
AgentRound(i) ==
    /\ wpc[i] = "loop"
    /\ RoundsLeft(round[i], max_tool_rounds)
    /\ usedKeys' = [ usedKeys EXCEPT ![i] = @ \cup { key[i] } ]
    /\ \/ LoopReturns(i, ErrorText(roles[i], "exception"), TRUE)
       \/ \E res \in SwarmResults, fault \in BOOLEAN :
            LET o == RoundOutcome(roles[i], res, fault, round[i],
                                  max_tool_rounds)
            IN  IF o.kind = "continue"
                THEN /\ round' = [ round EXCEPT ![i] = @ + 1 ]
                     /\ UNCHANGED << output, wpc, loopReturned >>
                ELSE IF o.kind = "raise"
                THEN LoopReturns(i, ErrorText(roles[i], o.text), TRUE)
                ELSE LoopReturns(i, o.text, FALSE)
    /\ UNCHANGED << agentVars, asideVars >>
    /\ UNCHANGED << roles, api_keys, max_tool_rounds, _cancelled, pc,
                    submitted, yielded, agent_outputs, merged, result, key,
                    future, sawCancel, cancelLog >>

\* A worker that stores its outcome in the dict of the run itself.
WorkerFinish_writes(i) ==
    /\ wpc[i] = "finish"
    /\ future' = [ future EXCEPT ![i] = "result" ]
    /\ agent_outputs' = DictSet(agent_outputs, roles[i], output[i])
    /\ wpc' = [ wpc EXCEPT ![i] = "done" ]
    /\ UNCHANGED << agentVars, asideVars, loopReturned >>
    /\ UNCHANGED << roles, api_keys, max_tool_rounds, _cancelled, pc,
                    submitted, yielded, merged, result, key, round, output,
                    usedKeys, sawCancel, cancelLog >>

\* _run_single after _run_agent: the "Done" status callback and
\* on_agent_done (either may raise), then return role_name, output.
WorkerFinish(i) ==
    /\ wpc[i] = "finish"
    /\ \E raises \in BOOLEAN :
         /\ future' = [ future EXCEPT ![i] =
                          IF raises THEN "exception" ELSE "result" ]
         /\ output' = [ output EXCEPT ![i] = IF raises THEN NoOutput ELSE @ ]
    /\ wpc' = [ wpc EXCEPT ![i] = "done" ]
    /\ UNCHANGED << agentVars, asideVars, loopReturned >>
    /\ UNCHANGED << roles, api_keys, max_tool_rounds, _cancelled, pc,
                    submitted, yielded, agent_outputs, merged, result, key,
                    round, usedKeys, sawCancel, cancelLog >>

\* A loop body that records the outcome without testing the flag.
Collect_unchecked(i) ==
    /\ yielded' = yielded \cup { i }
    /\ agent_outputs' =
         IF future[i] = "result"
         THEN DictSet(agent_outputs, roles[i], output[i])
         ELSE agent_outputs
    /\ pc' = IF yielded \cup { i } = Workers THEN "join" ELSE "collect"

\* The body of the as_completed loop for the future of worker i: break when
\* cancelled, else record the outcome; an exception of the future is passed.
Collect(i) ==
    IF _cancelled
    THEN /\ pc' = "join"
         /\ UNCHANGED << yielded, agent_outputs >>
    ELSE /\ yielded' = yielded \cup { i }
         /\ agent_outputs' =
              IF future[i] = "result"
              THEN DictSet(agent_outputs, roles[i], output[i])
              ELSE agent_outputs
         /\ pc' = IF yielded \cup { i } = Workers THEN "join" ELSE "collect"

\* as_completed yields a completed future, in no particular order.
CollectOne ==
    /\ pc = "collect"
    /\ \E i \in Completed \ yielded : Collect(i)
    /\ UNCHANGED << agentVars, asideVars, loopReturned >>
    /\ UNCHANGED << roles, api_keys, max_tool_rounds, _cancelled, submitted,
                    merged, result, wpc, key, round, output, future, usedKeys,
                    sawCancel, cancelLog >>

CancelledResult ==
    [ success |-> FALSE, error |-> "Cancelled",
      agent_outputs |-> agent_outputs ]

\* Leaving the `with` block waits for every worker; then the check of the
\* flag that precedes phase two.
\* A run that leaves its collection loop for phase two at once, without
\* waiting for its workers and without reading the flag.
Join_nowait ==
    /\ pc = "join"
    /\ result' = result
    /\ pc' = "phase2"
    /\ UNCHANGED << agentVars, asideVars, loopReturned >>
    /\ UNCHANGED << roles, api_keys, max_tool_rounds, _cancelled, submitted,
                    yielded, agent_outputs, merged, wpc, key, round, output,
                    future, usedKeys, sawCancel, cancelLog >>

Join ==
    /\ pc = "join"
    /\ Completed = Workers
    /\ IF _cancelled
       THEN /\ result' = CancelledResult
            /\ pc' = "returned"
       ELSE /\ result' = result
            /\ pc' = "phase2"
    /\ UNCHANGED << agentVars, asideVars, loopReturned >>
    /\ UNCHANGED << roles, api_keys, max_tool_rounds, _cancelled, submitted,
                    yielded, agent_outputs, merged, wpc, key, round, output,
                    future, usedKeys, sawCancel, cancelLog >>

\* Phase two: the merged document, one section per entry of agent_outputs,
\* goes to the verifier backend as a streaming call.  run returns the reply
\* or the error the call returns.  Two things leave run by an exception: the
\* status callback, which the calling thread invokes here, when it raises
\* before the document is built; and the verifier call when the response
\* fails while its lines are read (only urlopen is inside the try of
\* _call_grok and _call_ollama).
Synthesize ==
    /\ pc = "phase2"
    /\ \/ /\ pc' = "raised"
          /\ result' = [ raised |-> "status callback" ]
          /\ merged' = merged
       \/ /\ merged' = agent_outputs
          /\ \E call \in { "reply", "error", "exception" } :
               IF call = "exception"
               THEN /\ pc' = "raised"
                    /\ result' = [ raised |-> "verifier call" ]
               ELSE /\ pc' = "returned"
                    /\ result' =
                         IF call = "reply"
                         THEN [ success |-> TRUE, final_output |-> "synthesis",
                                agent_outputs |-> agent_outputs ]
                         ELSE [ success |-> FALSE,
                                error |-> "HTTP 500: overloaded",
                                agent_outputs |-> agent_outputs ]
    /\ UNCHANGED << agentVars, asideVars, loopReturned >>
    /\ UNCHANGED << roles, api_keys, max_tool_rounds, _cancelled, submitted,
                    yielded, agent_outputs, wpc, key, round, output, future,
                    usedKeys, sawCancel, cancelLog >>

Next ==
    \/ Cancel
    \/ RunStart
    \/ Submit
    \/ \E i \in Workers : WorkerStart(i)
    \/ \E i \in Workers : AgentRound(i)
    \/ \E i \in Workers : WorkerFinish(i)
    \/ CollectOne
    \/ Join
    \/ Synthesize

Spec == Init /\ [][Next]_vars

\* ---------------------------------------------------------- _run_agent
\* json.loads(tc["function"]["arguments"]), {} for a payload that does not
\* decode.
DecodeArgs(payload) ==
    IF payload \in { "{oops", None } THEN "{}" ELSE payload

\* The results of the Tool Gateway, as json.dumps writes them: a success,
\* a failure of the tool, an exception execute_tool caught, a command of
\* the blocklist, a denial.
Succeeded == "{\"success\": true, \"content\": \"...\"}"
Failed == "{\"success\": false, \"error\": \"...\"}"
Caught == "{\"success\": false, \"error\": \"'list' object has no attribute 'get'\"}"
Blocked == "{\"success\": false, \"error\": \"BLOCKED: Cannot format drives\", \"blocked\": true, \"block_reason\": \"Cannot format drives\"}"
Denied == "{\"success\": false, \"error\": \"Denied by user\"}"

\* json.dumps(execute_tool(name, args, agent_role)): the Tool Gateway
\* answers every call with a result, a failure included.
ExecuteTool(name, args) ==
    IF args = "[1, 2]" THEN Caught
    ELSE IF name = "read_file"
    THEN IF args = "{}" THEN Failed ELSE Succeeded
    ELSE IF args = "{\"cmd\": \"format c:\"}" THEN Blocked
    ELSE Denied

\* The assistant message appended for a response with tool calls.
AssistantMsg(res) ==
    [ role |-> "assistant",
      content |-> IF res.content \in { "", None } THEN None ELSE res.content,
      tool_calls |-> res.tool_calls ]

\* The tool message appended for the tool call tc.
ToolMsg(tc) ==
    [ role |-> "tool", tool_call_id |-> tc.id,
      content |-> ExecuteTool(tc.function.name,
                              DecodeArgs(tc.function.arguments)) ]

\* A loop that a failing tool result ends: the tool messages up to the
\* first result that reports a failure.
ToolMsgs_untilFailure(tcs, handled) ==
    LET failing == { j \in 1 .. handled :
                       ToolMsg(tcs[j]).content # Succeeded }
        last == IF failing = {} THEN handled
                ELSE CHOOSE j \in failing : \A k \in failing : j <= k
    IN  [ j \in 1 .. last |-> ToolMsg(tcs[j]) ]

\* A loop that an undecodable payload ends: the tool messages of the tool
\* calls before the first one whose payload does not decode to a map.
ToolMsgs_decodable(tcs, handled) ==
    LET bad == { j \in 1 .. handled :
                   tcs[j].function.arguments \in Undecodable }
        last == IF bad = {} THEN handled
                ELSE (CHOOSE j \in bad : \A k \in bad : j <= k) - 1
    IN  [ j \in 1 .. last |-> ToolMsg(tcs[j]) ]

\* A loop that answers the first tool call of a response only.
ToolMsgs_first(tcs, handled) ==
    [ j \in 1 .. (IF handled > 0 THEN 1 ELSE 0) |-> ToolMsg(tcs[j]) ]

\* The tool messages appended for the first `handled` tool calls of tcs.
ToolMsgs(tcs, handled) == [ j \in 1 .. handled |-> ToolMsg(tcs[j]) ]

\* on_status(f"Using: {func_name}") and execute_tool(func_name, ...) for
\* the tool call tc.
StatusEvent(tc) ==
    [ ev |-> "on_status", id |-> tc.id, name |-> tc.function.name ]
ExecuteEvent(tc) ==
    [ ev |-> "execute_tool", id |-> tc.id, name |-> tc.function.name ]

\* A loop that runs each tool before it reports it.
RECURSIVE ToolEvents_executeFirst(_, _)
ToolEvents_executeFirst(tcs, handled) ==
    IF handled = 0 THEN << >>
    ELSE ToolEvents_executeFirst(tcs, handled - 1)
         \o << ExecuteEvent(tcs[handled]), StatusEvent(tcs[handled]) >>

\* The calls the for loop makes for the first `handled` tool calls of tcs:
\* the status hook, then the tool.
RECURSIVE ToolEvents(_, _)
ToolEvents(tcs, handled) ==
    IF handled = 0 THEN << >>
    ELSE ToolEvents(tcs, handled - 1)
         \o << StatusEvent(tcs[handled]), ExecuteEvent(tcs[handled]) >>

\* The status hook that raised for the tool call at position fault.
FaultEvents(tcs, fault) ==
    IF fault > 0 THEN << StatusEvent(tcs[fault]) >> ELSE << >>

\* The ids of the tool calls tcs.
IdsOf(tcs) == [ j \in 1 .. Len(tcs) |-> tcs[j].id ]

\* The swarm of Spec plays no part in a call followed on its own.
RunIdle ==
    /\ roles = << >>
    /\ pc = "idle"
    /\ submitted = 0
    /\ yielded = {}
    /\ agent_outputs = << >>
    /\ merged = << >>
    /\ result = [ kind |-> "none" ]
    /\ wpc = [ i \in 1 .. MaxRoles |-> "new" ]
    /\ key = [ i \in 1 .. MaxRoles |-> NoOutput ]
    /\ round = [ i \in 1 .. MaxRoles |-> 0 ]
    /\ output = [ i \in 1 .. MaxRoles |-> NoOutput ]
    /\ future = [ i \in 1 .. MaxRoles |-> "pending" ]
    /\ usedKeys = [ i \in 1 .. MaxRoles |-> {} ]
    /\ sawCancel = [ i \in 1 .. MaxRoles |-> FALSE ]
    /\ loopReturned = [ i \in 1 .. MaxRoles |-> FALSE ]
    /\ cancelLog = [ requested |-> FALSE, early |-> FALSE, done |-> {},
                     inflight |-> NoLoop ]

\* No swarm is used: the object holds one key and a clear flag.
SwarmIdle ==
    /\ RunIdle
    /\ api_keys = << KeyPool[1] >>
    /\ _cancelled = FALSE

\* _run_agent has been called: a role, a context (possibly empty), a round
\* budget; the backend numbers its requests from 1.
InitAgent ==
    /\ SwarmIdle
    /\ StreamIdle
    /\ ResearchIdle
    /\ ConfirmIdle
    /\ GatewayIdle
    /\ max_tool_rounds \in 1 .. MaxToolRounds
    /\ role_name = AGENT_ROLES[1]
    /\ context \in { "", "notes.txt: ..." }
    /\ messages = << >>
    /\ apc = "called"
    /\ calls = 0
    /\ returned = NoOutput
    /\ nextId = 1
    /\ received = << >>
    /\ sent = << >>
    /\ tool_events = << >>
    /\ CtorIdle

\* The initial message sequence: the system prompt, the context message
\* when there is a context, the user's task.
InitialMessages(role, ctx) ==
    << [ role |-> "system", content |-> "You are a Grok Swarm Agent - role: " \o role ] >>
    \o ( IF ctx # ""
         THEN << [ role |-> "system",
                   content |-> "Attached context files: " \o ctx ] >>
         ELSE << >> )
    \o << [ role |-> "user", content |-> "task" ] >>

AgentBegin ==
    /\ apc = "called"
    /\ messages' = InitialMessages(role_name, context)
    /\ apc' = "loop"
    /\ UNCHANGED << role_name, context, calls, returned, nextId, received,
                    sent, tool_events >>
    /\ UNCHANGED << swarmVars, asideVars >>

\* One round of the loop: the backend call and, for a response with tool
\* calls, the assistant message and one tool message per tool call handled.
\* fault = j > 0: an exception escapes while the j-th tool call is handled,
\* before its tool runs; the backend call itself may raise as well (the read
\* of the response body is outside the try).
LoopRoundOn(results) ==
    /\ apc = "loop"
    /\ RoundsLeft(calls, max_tool_rounds)
    /\ calls' = calls + 1
    /\ sent' = messages
    /\ \/ /\ apc' = "raised"
          /\ UNCHANGED << messages, returned, nextId, received, tool_events >>
       \/ \E res \in results :
          \E fault \in 0 .. ( IF HasToolCalls(res) THEN Len(res.tool_calls) ELSE 0 ) :
            LET o == RoundOutcome(role_name, res, fault > 0, calls,
                                  max_tool_rounds)
                tcs == IF HasToolCalls(res) THEN res.tool_calls ELSE << >>
                handled == IF fault > 0 THEN fault - 1 ELSE Len(tcs)
            IN  /\ messages' =
                     IF HasToolCalls(res)
                     THEN Append(messages, AssistantMsg(res))
                          \o ToolMsgs(tcs, handled)
                     ELSE messages
                /\ received' = received \o IdsOf(tcs)
                /\ tool_events' = tool_events \o ToolEvents(tcs, handled)
                                      \o FaultEvents(tcs, fault)
                /\ nextId' = nextId + Len(tcs)
                /\ apc' = IF o.kind = "continue" THEN "loop"
                          ELSE IF o.kind = "raise" THEN "raised"
                          ELSE "returned"
                /\ returned' = IF o.kind = "return" THEN o.text ELSE returned
    /\ UNCHANGED << role_name, context >>
    /\ UNCHANGED << swarmVars, asideVars >>

LoopRound == LoopRoundOn(GrokResults(nextId, PayloadLists, Contents))

NextAgent ==
    \/ AgentBegin
    \/ LoopRound

SpecAgent == InitAgent /\ [][NextAgent]_vars

\* ---- the tool handling of _run_agent, on every kind of request
\* _run_agent has been called with a budget of one or two rounds.
InitTools ==
    /\ SwarmIdle
    /\ StreamIdle
    /\ ResearchIdle
    /\ ConfirmIdle
    /\ GatewayIdle
    /\ max_tool_rounds \in 1 .. 2
    /\ role_name = AGENT_ROLES[1]
    /\ context = ""
    /\ messages = << >>
    /\ apc = "called"
    /\ calls = 0
    /\ returned = NoOutput
    /\ nextId = 1
    /\ received = << >>
    /\ sent = << >>
    /\ tool_events = << >>
    /\ CtorIdle

ToolRound == LoopRoundOn(ToolResults(nextId))

NextTools ==
    \/ AgentBegin
    \/ ToolRound

SpecTools == InitTools /\ [][NextTools]_vars

\* ------------------------------------------------ streaming responses
\* The lines a backend sends.  A payload is a text that json.loads decodes,
\* given as the object it decodes to ([json |-> ...]), or another text
\* ([literal |-> ...]).  The API of Grok sends server-sent events, each a
\* "data: " line, and closes with the literal [DONE].
GrokData(content) ==
    [ prefix |-> "data: ",
      payload |-> [ json |-> [ choices |-> << [ delta |-> [ content |-> content ] ] >> ] ] ]
GrokDone == [ prefix |-> "data: ", payload |-> [ literal |-> "[DONE]" ] ]
GrokLines ==
    { GrokData(c) : c \in { "Hel", "lo", "", None } }
    \cup { GrokDone,
           [ prefix |-> "data: ",
             payload |-> [ json |-> [ choices |-> << [ delta |-> [ role |-> "assistant" ] ] >> ] ] ],
           [ prefix |-> "data: ", payload |-> [ json |-> [ choices |-> << >> ] ] ],
           [ prefix |-> "data: ", payload |-> [ literal |-> "{oops" ] ],
           [ prefix |-> "", payload |-> [ literal |-> ": keep-alive" ] ] }

\* Ollama sends one JSON object per line, the last one with "done": true.
OllamaData(content, done) ==
    [ prefix |-> "",
      payload |-> [ json |-> [ message |-> [ content |-> content ], done |-> done ] ] ]
OllamaLines ==
    { OllamaData(c, d) : c \in { "Hel", "lo", "" }, d \in BOOLEAN }
    \cup { [ prefix |-> "", payload |-> [ json |-> [ done |-> TRUE ] ] ],
           [ prefix |-> "", payload |-> [ literal |-> "" ] ],
           [ prefix |-> "", payload |-> [ literal |-> "{oops" ] ] }

\* A test that lets the empty text through.
Truthy_notNone(content) == content # None

\* `if content:` for a text or None.
Truthy(content) == content \notin { "", None }

\* d.get(k, default) for a decoded JSON object.
Get(d, k, default) == IF k \in DOMAIN d THEN d[k] ELSE default
EmptyDict == [ k \in {} |-> None ]

\* What one iteration of the for loop does with a line: emit |-> the text
\* handed to on_token and appended to full_text, None when there is none;
\* stop |-> break.
Step(text, stop) == [ emit |-> text, stop |-> stop ]

\* _call_grok: lines that are no events are skipped, [DONE] breaks, a
\* payload that does not decode or lacks choices[0] is skipped.
GrokLine(line) ==
    IF line.prefix # "data: " THEN Step(None, FALSE)
    ELSE IF line.payload = [ literal |-> "[DONE]" ] THEN Step(None, TRUE)
    ELSE IF "json" \notin DOMAIN line.payload THEN Step(None, FALSE)
    ELSE LET chunk == line.payload.json
         IN  IF "choices" \notin DOMAIN chunk THEN Step(None, FALSE)
             ELSE IF Len(chunk.choices) = 0 THEN Step(None, FALSE)
             ELSE LET delta == Get(chunk.choices[1], "delta", EmptyDict)
                      content == Get(delta, "content", None)
                  IN  IF Truthy(content) THEN Step(content, FALSE)
                      ELSE Step(None, FALSE)

\* _call_ollama: empty lines and lines that do not decode are skipped; the
\* content of a chunk is forwarded before its "done" is read.
OllamaLine(line) ==
    IF line.payload = [ literal |-> "" ] THEN Step(None, FALSE)
    ELSE IF "json" \notin DOMAIN line.payload THEN Step(None, FALSE)
    ELSE LET chunk == line.payload.json
             content == Get(Get(chunk, "message", EmptyDict), "content", "")
         IN  Step(IF Truthy(content) THEN content ELSE None,
                  Get(chunk, "done", FALSE))

\* "".join(full_text)
RECURSIVE JoinText(_)
JoinText(texts) ==
    IF texts = << >> THEN "" ELSE Head(texts) \o JoinText(Tail(texts))

\* The texts the for loop appends to full_text when it runs over the lines
\* without a failure.
RECURSIVE Consumed(_, _)
Consumed(b, lines) ==
    IF lines = << >> THEN << >>
    ELSE LET st == IF b = "grok" THEN GrokLine(Head(lines))
                   ELSE OllamaLine(Head(lines))
         IN  ( IF st.emit # None THEN << st.emit >> ELSE << >> )
             \o ( IF st.stop THEN << >> ELSE Consumed(b, Tail(lines)) )

\* for raw_line in resp: the connection fails while the next line is read;
\* the exception leaves the call.
StreamBreaks ==
    /\ spc = "reading"
    /\ spc' = "raised"
    /\ UNCHANGED << backend, resp, pos, tokens, full_text, reply, on_token >>
    /\ UNCHANGED << swarmVars, agentVars, researchVars, confirmVars,
                    gatewayVars, ctorVars >>

\* A streaming call whose request was accepted: stream and on_token are
\* set, resp yields the lines the backend sends.
InitStream ==
    /\ SwarmIdle
    /\ ResearchIdle
    /\ ConfirmIdle
    /\ GatewayIdle
    /\ max_tool_rounds = 1
    /\ AgentIdle
    /\ backend \in { "grok", "ollama" }
    /\ \E n \in 0 .. MaxLines :
         resp \in [ 1 .. n -> IF backend = "grok" THEN GrokLines
                              ELSE OllamaLines ]
    /\ pos = 0
    /\ tokens = << >>
    /\ full_text = << >>
    /\ spc = "reading"
    /\ reply = NoOutput
    /\ on_token = TRUE
    /\ CtorIdle

\* for raw_line in resp: one iteration.  on_token may raise; the exception
\* leaves the call.
StreamLine ==
    /\ spc = "reading"
    /\ pos < Len(resp)
    /\ pos' = pos + 1
    /\ LET st == IF backend = "grok" THEN GrokLine(resp[pos + 1])
                 ELSE OllamaLine(resp[pos + 1])
       IN  IF st.emit # None
           THEN /\ tokens' = Append(tokens, st.emit)
                /\ \E raises \in BOOLEAN :
                     IF raises
                     THEN spc' = "raised" /\ full_text' = full_text
                     ELSE /\ full_text' = Append(full_text, st.emit)
                          /\ spc' = IF st.stop THEN "ended" ELSE "reading"
           ELSE /\ spc' = IF st.stop THEN "ended" ELSE "reading"
                /\ UNCHANGED << tokens, full_text >>
    /\ UNCHANGED << backend, resp, reply, on_token >>
    /\ UNCHANGED << swarmVars, agentVars, researchVars, confirmVars,
                    gatewayVars, ctorVars >>

\* After the loop: resp.close(); return success with the joined text.
StreamReturn ==
    /\ \/ spc = "ended"
       \/ spc = "reading" /\ pos = Len(resp)
    /\ reply' = JoinText(full_text)
    /\ spc' = "returned"
    /\ UNCHANGED << backend, resp, pos, tokens, full_text, on_token >>
    /\ UNCHANGED << swarmVars, agentVars, researchVars, confirmVars,
                    gatewayVars, ctorVars >>

NextStream ==
    \/ StreamLine
    \/ StreamBreaks
    \/ StreamReturn

SpecStream == InitStream /\ [][NextStream]_vars

\* ------------------------------------------- the verifier backend call
\* run and run_research_loop call the verifier with stream=True and pass
\* on_verifier_token on as on_token, whether the caller supplied it or not.
VerifierStream == TRUE

\* The request carries "stream": stream whatever on_token is, so the
\* backend answers with the lines of a stream in both cases.
InitVerifier ==
    /\ SwarmIdle
    /\ ResearchIdle
    /\ ConfirmIdle
    /\ GatewayIdle
    /\ max_tool_rounds = 1
    /\ AgentIdle
    /\ backend \in { "grok", "ollama" }
    /\ on_token \in BOOLEAN
    /\ \E n \in 0 .. MaxLines :
         resp \in [ 1 .. n -> IF backend = "grok" THEN GrokLines
                              ELSE OllamaLines ]
    /\ pos = 0
    /\ tokens = << >>
    /\ full_text = << >>
    /\ spc = "opened"
    /\ reply = NoOutput
    /\ CtorIdle

\* `if stream and on_token`: the streaming branch is taken only when a
\* callback was supplied; otherwise the call falls through to the
\* non-streaming branch.
Dispatch ==
    /\ spc = "opened"
    /\ spc' = IF VerifierStream /\ on_token THEN "reading" ELSE "body"
    /\ UNCHANGED << backend, resp, pos, tokens, full_text, reply, on_token >>
    /\ UNCHANGED << swarmVars, agentVars, researchVars, confirmVars,
                    gatewayVars, ctorVars >>

\* json.loads(body) of the whole response: it decodes when the body holds
\* one JSON document and, around it, white space only.
IsDocument(line) == line.prefix = "" /\ "json" \in DOMAIN line.payload
IsBlank(line) == line.prefix = "" /\ line.payload = [ literal |-> "" ]
Documents(lines) == { j \in 1 .. Len(lines) : IsDocument(lines[j]) }
Decodes(lines) ==
    /\ \A j \in 1 .. Len(lines) : IsDocument(lines[j]) \/ IsBlank(lines[j])
    /\ Cardinality(Documents(lines)) = 1
Decoded(lines) == lines[CHOOSE j \in Documents(lines) : TRUE].payload.json

\* The non-streaming branch of _call_grok (no tools were passed, so no
\* tool_calls come back) and of _call_ollama.
NonStreaming(b, lines) ==
    IF ~ Decodes(lines)
    THEN [ success |-> FALSE,
           error |-> IF b = "grok" THEN "Parse error"
                     ELSE "Ollama parse error" ]
    ELSE LET data == Decoded(lines)
         IN  IF b = "grok"
             THEN IF "choices" \notin DOMAIN data
                  THEN [ success |-> FALSE, error |-> "Parse error" ]
                  ELSE IF Len(data.choices) = 0
                  THEN [ success |-> FALSE, error |-> "Parse error" ]
                  ELSE IF "message" \notin DOMAIN data.choices[1]
                  THEN [ success |-> FALSE, error |-> "Parse error" ]
                  ELSE [ success |-> TRUE,
                         reply |-> Get(data.choices[1].message,
                                       "content", "") ]
             ELSE [ success |-> TRUE,
                    reply |-> Get(Get(data, "message", EmptyDict),
                                  "content", "") ]

\* body = resp.read(): the connection may fail while the body is read (the
\* exception leaves the call); otherwise the body is parsed and a dict is
\* returned, success with the reply or failure with a parse error.
ReadBody ==
    /\ spc = "body"
    /\ \/ /\ spc' = "raised"
          /\ UNCHANGED << pos, reply >>
       \/ LET res == NonStreaming(backend, resp)
          IN  /\ pos' = Len(resp)
              /\ IF res.success
                 THEN spc' = "returned" /\ reply' = res.reply
                 ELSE spc' = "failed" /\ reply' = reply
    /\ UNCHANGED << backend, resp, tokens, full_text, on_token >>
    /\ UNCHANGED << swarmVars, agentVars, researchVars, confirmVars,
                    gatewayVars, ctorVars >>

NextVerifier ==
    \/ Dispatch
    \/ StreamLine
    \/ StreamBreaks
    \/ StreamReturn
    \/ ReadBody

SpecVerifier == InitVerifier /\ [][NextVerifier]_vars

\* ---------------------------------------------------- run_research_loop
\* The state of run, which run_research_loop leaves alone.
runVars == << roles, max_tool_rounds, pc, submitted, yielded, agent_outputs,
             merged, result, wpc, key, round, output, future, usedKeys,
             sawCancel, loopReturned, cancelLog >>

\* The parameter topic.
Topic == "topic"

\* A text is a sequence of tokens: the marker in both cases, a space, a
\* line break, and two words.
Tokens == { "NEXT:", "next:", " ", "\n", "alpha", "beta" }
Texts == UNION { [ 1 .. n -> Tokens ] : n \in 0 .. MaxTokens }

\* \s of the pattern, and the characters str.strip removes.
IsSpace(t) == t \in { " ", "\n" }

\* re.IGNORECASE: the token compared without regard to case.
Upper(t) == IF t = "next:" THEN "NEXT:" ELSE t

\* str.strip(): the text without leading and trailing whitespace.
RECURSIVE Strip(_)
Strip(text) ==
    IF text = << >> THEN text
    ELSE IF IsSpace(Head(text)) THEN Strip(Tail(text))
    ELSE IF IsSpace(text[Len(text)])
    THEN Strip(SubSeq(text, 1, Len(text) - 1))
    ELSE text

\* Where the group (.+) starts when the marker ends before position q, or
\* 0 when the pattern does not match there. \s* is greedy: it takes all
\* the whitespace, and gives it back from the right only when nothing but
\* whitespace follows, until the group finds a character of a line.
CaptureStart(text, q) ==
    LET rest == { j \in q .. Len(text) : ~ IsSpace(text[j]) }
        spaces == { j \in q .. Len(text) : text[j] = " " }
    IN  IF rest # {} THEN CHOOSE j \in rest : \A k \in rest : j <= k
        ELSE IF spaces # {}
        THEN CHOOSE j \in spaces : \A k \in spaces : k <= j
        ELSE 0

\* Where the group (.+) ends when it starts at s: the end of the line.
LineEnd(text, s) ==
    LET breaks == { j \in s .. Len(text) : text[j] = "\n" }
    IN  IF breaks = {} THEN Len(text)
        ELSE (CHOOSE j \in breaks : \A k \in breaks : j <= k) - 1

\* re.findall(r'NEXT:\s*(.+)', text, re.IGNORECASE) from position p on:
\* the groups of the matches, leftmost first, none overlapping.
RECURSIVE FindAll(_, _)
FindAll(text, p) ==
    IF p > Len(text) THEN << >>
    ELSE IF Upper(text[p]) # "NEXT:" THEN FindAll(text, p + 1)
    ELSE LET s == CaptureStart(text, p + 1)
         IN  IF s = 0 THEN FindAll(text, p + 1)
             ELSE << SubSeq(text, s, LineEnd(text, s)) >>
                  \o FindAll(text, LineEnd(text, s) + 1)

\* A mutant of FirstTopic: the last match is taken.
FirstTopic_last(next_topics) == next_topics[Len(next_topics)]

\* next_topics[0]
FirstTopic(next_topics) == next_topics[1]

\* The generated subtopic of the round after round n.
DeeperDive(n) == Topic \o " - deeper dive round " \o ToString(n + 1)

\* The subtopic of the next round, from the catalog text of round n.
NextTask(text, n) ==
    LET next_topics == FindAll(text, 1)
    IN  IF next_topics # << >>
        THEN JoinText(Strip(FirstTopic(next_topics)))
        ELSE DeeperDive(n)

\* One extraction is followed on its own: a round has written its catalog
\* text, stripped, and the next subtopic is to be taken from it.
InitNext ==
    /\ SwarmIdle
    /\ max_tool_rounds = 1
    /\ AgentIdle
    /\ StreamIdle
    /\ ConfirmIdle
    /\ GatewayIdle
    /\ max_rounds = MaxRounds
    /\ on_round = None
    /\ round_num \in 1 .. MaxRounds
    /\ current_task = Topic
    /\ scraper_output = [ isNone |-> TRUE, text |-> << >> ]
    /\ catalog_result = [ kind |-> "none" ]
    /\ output_text \in { Strip(t) : t \in Texts }
    /\ raw_file = [ n \in 1 .. MaxRounds |-> [ exists |-> FALSE, size |-> 0 ] ]
    /\ files_created = << >>
    /\ all_summaries = << >>
    /\ index_listing = << >>
    /\ rresult = [ kind |-> "none" ]
    /\ rpc = "extract"
    /\ events = << >>
    /\ CtorIdle

ExtractNext ==
    /\ rpc = "extract"
    /\ current_task' = NextTask(output_text, round_num)
    /\ rpc' = "top"
    /\ UNCHANGED << max_rounds, on_round, all_summaries,
                    round_num, scraper_output, catalog_result,
                    output_text, raw_file, files_created, index_listing,
                    rresult, events >>
    /\ UNCHANGED << swarmVars, agentVars, streamVars,
                    confirmVars, gatewayVars, ctorVars >>

NextOfNext == ExtractNext

SpecNext == InitNext /\ [][NextOfNext]_vars

\* ---- the loop itself
\* The texts a backend answers with in the loop: one with a follow-up,
\* one without, one with two follow-ups and surrounding whitespace.
SampleTexts ==
    { << "NEXT:", " ", "alpha" >>,
      << "beta" >>,
      << "\n", "next:", "beta", "\n", "NEXT:", "alpha", " " >> }

\* A text, or Python's None.
Text(t) == [ isNone |-> FALSE, text |-> t ]
NoneText == [ isNone |-> TRUE, text |-> << >> ]

\* What _run_agent hands back to the loop: a reply, None, or the text the
\* loop makes of an exception of the call.
ScraperError == << "[Scraper ERROR]" >>
ScraperOutputs ==
    { Text(t) : t \in SampleTexts } \cup { NoneText, Text(ScraperError) }

\* What the catalog call does: a result with a reply, an error dict with
\* its error text, or an exception while the response is read.
VerifierError == << "HTTP 500" >>
NoResult == [ kind |-> "none" ]
VerifierResults ==
    { [ kind |-> "reply", reply |-> Text(t), error |-> << >> ] :
        t \in SampleTexts }
    \cup { [ kind |-> "reply", reply |-> NoneText, error |-> << >> ],
           [ kind |-> "error", reply |-> NoneText, error |-> VerifierError ],
           [ kind |-> "exception", reply |-> NoneText, error |-> << >> ] }

\* The raw file of a round: absent, empty, or holding data.
RawBytes == 2048
NoFile == [ exists |-> FALSE, size |-> 0 ]
RawFiles == { NoFile, [ exists |-> TRUE, size |-> 0 ],
              [ exists |-> TRUE, size |-> RawBytes ] }

\* The paths of the files of round n, and of the master index.
RoundPath(n) == [ kind |-> "round", n |-> n ]
RawPath(n) == [ kind |-> "raw", n |-> n ]
IndexPath == [ kind |-> "index", n |-> 0 ]

\* A collector that counts its rounds from zero.
ScraperKey_fromZero(n) == api_keys[((n - 1) % Len(api_keys)) + 1]

\* api_keys[round_num % len(api_keys)]
ScraperKey(n) == api_keys[(n % Len(api_keys)) + 1]

\* The events of the history: on_round(n, m, task) was invoked; the
\* collector of round n, given the subtopic task, called the backend with
\* the key k; the catalog call of round n began, with the key k; cancel()
\* set the flag during round n (0 before the first).
\* A mutant of OnRound: the number of the round counted from zero.
OnRound_fromZero(n, m, task) ==
    [ ev |-> "on_round", n |-> n - 1, max |-> m, task |-> task,
      key |-> None ]

OnRound(n, m, task) ==
    [ ev |-> "on_round", n |-> n, max |-> m, task |-> task, key |-> None ]
BackendCall(n, task, k) ==
    [ ev |-> "call", n |-> n, max |-> 0, task |-> task, key |-> k ]
CatalogCall(n, task, k) ==
    [ ev |-> "catalog", n |-> n, max |-> 0, task |-> task, key |-> k ]
FlagSet(n) ==
    [ ev |-> "cancel", n |-> n, max |-> 0, task |-> "", key |-> None ]

\* The loop left by an exception, raised by the named step.
Raised(by) == [ kind |-> "raised", by |-> by ]

InitResearch ==
    /\ RunIdle
    /\ max_tool_rounds = 1
    /\ AgentIdle
    /\ StreamIdle
    /\ ConfirmIdle
    /\ GatewayIdle
    /\ \E k \in 1 .. MaxKeys : api_keys = SubSeq(KeyPool, 1, k)
    /\ _cancelled = FALSE
    /\ max_rounds \in 1 .. MaxRounds
    /\ on_round \in { None, "callback" }
    /\ round_num = 0
    /\ current_task = NoOutput
    /\ scraper_output = NoneText
    /\ catalog_result = NoResult
    /\ output_text = << >>
    /\ raw_file = [ n \in 1 .. MaxRounds |-> NoFile ]
    /\ files_created = << >>
    /\ all_summaries = << >>
    /\ index_listing = << >>
    /\ rresult = [ kind |-> "none" ]
    /\ rpc = "called"
    /\ events = << >>
    /\ CtorIdle

\* cancel(), from another thread, while the loop is running or about to.
\* The history keeps the moment the flag goes up.
ResearchCancel ==
    /\ rpc \in { "called", "top", "scrape", "catalog", "index" }
    /\ _cancelled' = TRUE
    /\ events' = IF _cancelled THEN events
                 ELSE Append(events, FlagSet(round_num))
    /\ UNCHANGED << max_rounds, on_round, round_num, current_task,
                    scraper_output, catalog_result, output_text, raw_file,
                    files_created, all_summaries, index_listing, rresult,
                    rpc >>
    /\ UNCHANGED << api_keys, runVars, agentVars, streamVars,
                    confirmVars, gatewayVars, ctorVars >>

\* Lines 506-512.
ResearchStart ==
    /\ rpc = "called"
    /\ _cancelled' = FALSE
    /\ files_created' = << >>
    /\ all_summaries' = << >>
    /\ current_task' = Topic
    /\ rpc' = "top"
    /\ UNCHANGED << max_rounds, on_round, round_num, scraper_output,
                    catalog_result, output_text, raw_file, index_listing,
                    rresult, events >>
    /\ UNCHANGED << api_keys, runVars, agentVars, streamVars,
                    confirmVars, gatewayVars, ctorVars >>

\* Lines 514-519: the next value of the range, the flag, on_round.
RoundTop ==
    /\ rpc = "top"
    /\ IF round_num = max_rounds
       THEN /\ rpc' = "index"
            /\ UNCHANGED << round_num, events, rresult >>
       ELSE /\ round_num' = round_num + 1
            /\ IF _cancelled
               THEN rpc' = "index" /\ UNCHANGED << events, rresult >>
               ELSE IF on_round = None
               THEN rpc' = "scrape" /\ UNCHANGED << events, rresult >>
               ELSE /\ events' = Append(events,
                          OnRound(round_num', max_rounds, current_task))
                    /\ \/ rpc' = "scrape" /\ UNCHANGED rresult
                       \/ rpc' = "raised" /\ rresult' = Raised("on_round")
    /\ UNCHANGED << max_rounds, on_round, current_task, scraper_output,
                    catalog_result, output_text, raw_file, files_created,
                    all_summaries, index_listing >>
    /\ UNCHANGED << api_keys, _cancelled, runVars, agentVars, streamVars,
                    confirmVars, gatewayVars, ctorVars >>

\* Lines 560-590: the collector of the round. A status callback that
\* raises before the call ends the loop with no call made; _run_agent
\* makes a backend call, may leave a raw file, and returns a text or None,
\* or raises, which the loop turns into a text; a callback that raises
\* afterwards ends the loop; then the flag is read.
Scrape ==
    /\ rpc = "scrape"
    /\ \/ /\ rpc' = "raised"
          /\ rresult' = Raised("status callback")
          /\ UNCHANGED << scraper_output, raw_file, events >>
       \/ /\ events' = Append(events,
                BackendCall(round_num, current_task,
                            ScraperKey(round_num)))
          /\ scraper_output' \in ScraperOutputs
          /\ \E f \in RawFiles :
                raw_file' = [ raw_file EXCEPT ![round_num] = f ]
          /\ \/ rpc' = "raised" /\ rresult' = Raised("status callback")
             \/ /\ rpc' = IF _cancelled THEN "index" ELSE "catalog"
                /\ UNCHANGED rresult
    /\ UNCHANGED << max_rounds, on_round, round_num, current_task,
                    catalog_result, output_text, files_created,
                    all_summaries, index_listing >>
    /\ UNCHANGED << api_keys, _cancelled, runVars, agentVars, streamVars,
                    confirmVars, gatewayVars, ctorVars >>

\* Lines 593-676: the catalog pass of the round, the two files recorded,
\* the next subtopic. The status callback may raise before the call or
\* after it; the call may raise while the response is read; re.sub raises
\* on None.
Catalog ==
    /\ rpc = "catalog"
    /\ \E v \in VerifierResults, cb \in { "ok", "before", "after" } :
         LET raw_size == IF raw_file[round_num].exists
                         THEN raw_file[round_num].size ELSE 0
             chosen == IF v.kind = "reply" THEN v.reply ELSE scraper_output
             stripped == Strip(chosen.text)
             recorded == Append(files_created, RoundPath(round_num))
             called == Append(events,
                           CatalogCall(round_num, current_task, api_keys[1]))
         IN  IF cb = "before"
             THEN /\ rpc' = "raised"
                  /\ rresult' = Raised("status callback")
                  /\ UNCHANGED << catalog_result, output_text, files_created,
                                  all_summaries, current_task, events >>
             ELSE IF v.kind = "exception"
             THEN /\ rpc' = "raised"
                  /\ rresult' = Raised("catalog call")
                  /\ events' = called
                  /\ UNCHANGED << catalog_result, output_text, files_created,
                                  all_summaries, current_task >>
             ELSE IF cb = "after" \/ chosen.isNone
             THEN /\ rpc' = "raised"
                  /\ rresult' = Raised(IF cb = "after"
                                       THEN "status callback" ELSE "re.sub")
                  /\ events' = called
                  /\ catalog_result' = v
                  /\ UNCHANGED << output_text, files_created, all_summaries,
                                  current_task >>
             ELSE /\ events' = called
                  /\ catalog_result' = v
                  /\ output_text' = stripped
                  /\ files_created' =
                       IF raw_file[round_num].exists /\ raw_size > 0
                       THEN Append(recorded, RawPath(round_num))
                       ELSE recorded
                  /\ all_summaries' = Append(all_summaries, round_num)
                  /\ current_task' = NextTask(stripped, round_num)
                  /\ rpc' = "top"
                  /\ UNCHANGED rresult
    /\ UNCHANGED << max_rounds, on_round, round_num, scraper_output,
                    raw_file, index_listing >>
    /\ UNCHANGED << api_keys, _cancelled, runVars, agentVars, streamVars,
                    confirmVars, gatewayVars, ctorVars >>

\* The basenames that start with "round_".
RECURSIVE CountRounds(_)
CountRounds(files) ==
    IF files = << >> THEN 0
    ELSE (IF Head(files).kind = "round" THEN 1 ELSE 0)
         + CountRounds(Tail(files))

\* Line 682: the number the index shows as "Total rounds", the length of
\* the list when the index is written.
IndexTotalRounds == Len(index_listing)

\* Lines 678-697: the master index is written from the list, then its
\* own path is added to the list, and the dict is returned.
WriteIndex ==
    /\ rpc = "index"
    /\ index_listing' = files_created
    /\ files_created' = Append(files_created, IndexPath)
    /\ rresult' = [ kind |-> "dict",
                    success |-> ~ _cancelled,
                    total_rounds |-> CountRounds(files_created'),
                    files_created |-> files_created' ]
    /\ rpc' = "returned"
    /\ UNCHANGED << max_rounds, on_round, round_num, current_task,
                    scraper_output, catalog_result, output_text, raw_file,
                    all_summaries, events >>
    /\ UNCHANGED << api_keys, _cancelled, runVars, agentVars, streamVars,
                    confirmVars, gatewayVars, ctorVars >>

NextResearch ==
    \/ ResearchCancel
    \/ ResearchStart
    \/ RoundTop
    \/ Scrape
    \/ Catalog
    \/ WriteIndex

SpecResearch == InitResearch /\ [][NextResearch]_vars

\* ------------------------------------- the confirmation gate, in action
InitConfirm ==
    /\ SwarmIdle
    /\ max_tool_rounds = 1
    /\ AgentIdle
    /\ StreamIdle
    /\ ResearchIdle
    /\ ConfirmIdle
    /\ GatewayIdle
    /\ CtorIdle

\* A tool of thread t calls _request_confirmation.
ConfirmRequest(t) ==
    /\ cpc[t] = "idle"
    /\ asked[t] < MaxToolCalls
    /\ asked' = [ asked EXCEPT ![t] = @ + 1 ]
    /\ cpc' = [ cpc EXCEPT ![t] = "lock" ]
    /\ UNCHANGED << _confirm_lock, granted, after_queue, dialogs, answered,
                    confirmed >>
    /\ UNCHANGED << swarmVars, agentVars, streamVars, researchVars,
                    gatewayVars, ctorVars >>

\* with _confirm_lock: the thread enters the callback, which hands _show
\* to the GUI thread with after(0, ...) and waits for the event.
ConfirmAcquire(t) ==
    /\ cpc[t] = "lock"
    /\ _confirm_lock = 0
    /\ _confirm_lock' = t
    /\ after_queue' = Append(after_queue, CallOf(t))
    /\ cpc' = [ cpc EXCEPT ![t] = "wait" ]
    /\ UNCHANGED << asked, granted, dialogs, answered, confirmed >>
    /\ UNCHANGED << swarmVars, agentVars, streamVars, researchVars,
                    gatewayVars, ctorVars >>

\* The GUI thread runs the next _show: from its main loop, or from the
\* event loop wait_window runs for the dialog opened last. The dialog
\* opens and _show waits for its window.
Show ==
    /\ after_queue # << >>
    /\ dialogs' = Append(dialogs,
                      [ call |-> Head(after_queue), open |-> TRUE,
                        confirmed |-> FALSE ])
    /\ after_queue' = Tail(after_queue)
    /\ UNCHANGED << _confirm_lock, cpc, asked, granted, answered,
                    confirmed >>
    /\ UNCHANGED << swarmVars, agentVars, streamVars, researchVars,
                    gatewayVars, ctorVars >>

\* The human answers an open dialog, which destroys its window.
Answer ==
    /\ \E i \in 1 .. Len(dialogs), yes \in BOOLEAN :
         /\ dialogs[i].open
         /\ dialogs' = [ dialogs EXCEPT ![i].open = FALSE,
                                        ![i].confirmed = yes ]
    /\ UNCHANGED << _confirm_lock, cpc, asked, granted, after_queue,
                    answered, confirmed >>
    /\ UNCHANGED << swarmVars, agentVars, streamVars, researchVars,
                    gatewayVars, ctorVars >>

\* wait_window of the _show entered last returns once its window is gone:
\* _show stores the answer and sets the event of its call.
ShowReturns ==
    /\ dialogs # << >>
    /\ ~ dialogs[Len(dialogs)].open
    /\ answered' = answered \cup { dialogs[Len(dialogs)].call }
    /\ confirmed' = IF dialogs[Len(dialogs)].confirmed
                    THEN confirmed \cup { dialogs[Len(dialogs)].call }
                    ELSE confirmed
    /\ dialogs' = SubSeq(dialogs, 1, Len(dialogs) - 1)
    /\ UNCHANGED << _confirm_lock, cpc, asked, granted, after_queue >>
    /\ UNCHANGED << swarmVars, agentVars, streamVars, researchVars,
                    gatewayVars, ctorVars >>

\* event.wait returns because the event is set: the callback returns the
\* answer and the lock is released.
ConfirmWake(t) ==
    /\ cpc[t] = "wait"
    /\ CallOf(t) \in answered
    /\ granted' = [ granted EXCEPT ![t] = CallOf(t) \in confirmed ]
    /\ _confirm_lock' = 0
    /\ cpc' = [ cpc EXCEPT ![t] = "idle" ]
    /\ UNCHANGED << asked, after_queue, dialogs, answered, confirmed >>
    /\ UNCHANGED << swarmVars, agentVars, streamVars, researchVars,
                    gatewayVars, ctorVars >>

\* event.wait(timeout=120) returns with the event not set: the callback
\* returns result[0], still False, and the lock is released, whatever
\* became of _show.
ConfirmTimeout(t) ==
    /\ cpc[t] = "wait"
    /\ CallOf(t) \notin answered
    /\ granted' = [ granted EXCEPT ![t] = FALSE ]
    /\ _confirm_lock' = 0
    /\ cpc' = [ cpc EXCEPT ![t] = "idle" ]
    /\ UNCHANGED << asked, after_queue, dialogs, answered, confirmed >>
    /\ UNCHANGED << swarmVars, agentVars, streamVars, researchVars,
                    gatewayVars, ctorVars >>

NextConfirm ==
    \/ \E t \in Threads : ConfirmRequest(t)
    \/ \E t \in Threads : ConfirmAcquire(t)
    \/ Show
    \/ Answer
    \/ ShowReturns
    \/ \E t \in Threads : ConfirmWake(t)
    \/ \E t \in Threads : ConfirmTimeout(t)

SpecConfirm == InitConfirm /\ [][NextConfirm]_vars

\* ------------------------------------------------------- SwarmTools
\* Texts of commands are sequences of characters.  _PS_BLOCKLIST, in the
\* order of the source: the pattern and the reason of each entry.
_PS_BLOCKLIST ==
    <<
       [ pattern |-> << "u", "n", "i", "n", "s", "t", "a", "l", "l" >>,
         reason |-> "Cannot uninstall software" ],
       [ pattern |-> << "r", "e", "m", "o", "v", "e", "-", "a", "p", "p",
                        "x", "p", "a", "c", "k", "a", "g", "e" >>,
         reason |-> "Cannot remove Windows apps" ],
       [ pattern |-> << "r", "e", "m", "o", "v", "e", "-", "w", "i", "n",
                        "d", "o", "w", "s", "f", "e", "a", "t", "u", "r",
                        "e" >>,
         reason |-> "Cannot remove Windows features" ],
       [ pattern |-> << "r", "e", "m", "o", "v", "e", "-", "w", "i", "n",
                        "d", "o", "w", "s", "o", "p", "t", "i", "o", "n",
                        "a", "l", "f", "e", "a", "t", "u", "r", "e" >>,
         reason |-> "Cannot remove Windows features" ],
       [ pattern |-> << "f", "o", "r", "m", "a", "t", "-", "v", "o", "l",
                        "u", "m", "e" >>,
         reason |-> "Cannot format drives" ],
       [ pattern |-> << "f", "o", "r", "m", "a", "t", " ", "c", ":" >>,
         reason |-> "Cannot format drives" ],
       [ pattern |-> << "f", "o", "r", "m", "a", "t", " ", "d", ":" >>,
         reason |-> "Cannot format drives" ],
       [ pattern |-> << "s", "t", "o", "p", "-", "c", "o", "m", "p", "u",
                        "t", "e", "r" >>,
         reason |-> "Cannot shut down computer" ],
       [ pattern |-> << "r", "e", "s", "t", "a", "r", "t", "-", "c", "o",
                        "m", "p", "u", "t", "e", "r" >>,
         reason |-> "Cannot restart computer" ],
       [ pattern |-> << "s", "h", "u", "t", "d", "o", "w", "n" >>,
         reason |-> "Cannot shut down computer" ],
       [ pattern |-> << "c", "l", "e", "a", "r", "-", "r", "e", "c", "y",
                        "c", "l", "e", "b", "i", "n" >>,
         reason |-> "Cannot clear recycle bin" ],
       [ pattern |-> << "b", "c", "d", "e", "d", "i", "t" >>,
         reason |-> "Cannot modify boot configuration" ],
       [ pattern |-> << "d", "i", "s", "k", "p", "a", "r", "t" >>,
         reason |-> "Cannot modify disk partitions" ],
       [ pattern |-> << "r", "e", "g", " ", "d", "e", "l", "e", "t", "e" >>,
         reason |-> "Cannot delete registry keys" ],
       [ pattern |-> << "s", "e", "t", "-", "e", "x", "e", "c", "u", "t",
                        "i", "o", "n", "p", "o", "l", "i", "c", "y", " ",
                        "u", "n", "r", "e", "s", "t", "r", "i", "c", "t",
                        "e", "d" >>,
         reason |-> "Cannot change execution policy" ],
       [ pattern |-> << "r", "e", "m", "o", "v", "e", "-", "i", "t", "e",
                        "m", " ", "c", ":", "\\", "w", "i", "n", "d", "o",
                        "w", "s" >>,
         reason |-> "Cannot delete Windows system files" ],
       [ pattern |-> << "r", "e", "m", "o", "v", "e", "-", "i", "t", "e",
                        "m", " ", "c", ":", "\\", "p", "r", "o", "g", "r",
                        "a", "m" >>,
         reason |-> "Cannot delete Program Files" ],
       [ pattern |-> << "r", "e", "m", "o", "v", "e", "-", "i", "t", "e",
                        "m", " ", "-", "r", "e", "c", "u", "r", "s", "e",
                        " ", "c", ":", "\\" >>,
         reason |-> "Cannot recursively delete C: drive" ],
       [ pattern |-> << "d", "e", "l", " ", "/", "s", " ", "c", ":", "\\",
                        "w", "i", "n", "d", "o", "w", "s" >>,
         reason |-> "Cannot delete Windows system files" ],
       [ pattern |-> << "r", "m", "d", "i", "r", " ", "/", "s", " ", "c",
                        ":", "\\", "w", "i", "n", "d", "o", "w", "s" >>,
         reason |-> "Cannot delete Windows system folders" ],
       [ pattern |-> << "s", "y", "s", "t", "e", "m", "3", "2" >>,
         reason |-> "Cannot touch System32" ],
       [ pattern |-> << "n", "e", "w", "-", "s", "e", "r", "v", "i", "c",
                        "e" >>,
         reason |-> "Cannot create Windows services" ],
       [ pattern |-> << "r", "e", "m", "o", "v", "e", "-", "s", "e", "r",
                        "v", "i", "c", "e" >>,
         reason |-> "Cannot remove Windows services" ]
    >>

\* str.lower() of a character.
UpperCase ==
    << "A", "B", "C", "D", "E", "F", "G", "H", "I", "J", "K", "L", "M",
       "N", "O", "P", "Q", "R", "S", "T", "U", "V", "W", "X", "Y", "Z" >>
LowerCase ==
    << "a", "b", "c", "d", "e", "f", "g", "h", "i", "j", "k", "l", "m",
       "n", "o", "p", "q", "r", "s", "t", "u", "v", "w", "x", "y", "z" >>
Lower(c) ==
    IF \E i \in 1 .. 26 : UpperCase[i] = c
    THEN LowerCase[CHOOSE i \in 1 .. 26 : UpperCase[i] = c]
    ELSE c
LowerText(text) == [ i \in 1 .. Len(text) |-> Lower(text[i]) ]

\* str.replace("/", "\\")
ReplaceSlash(text) ==
    [ i \in 1 .. Len(text) |-> IF text[i] = "/" THEN "\\" ELSE text[i] ]

\* `pattern in text`
Contains(pattern, text) ==
    \E i \in 1 .. Len(text) - Len(pattern) + 1 :
        SubSeq(text, i, i + Len(pattern) - 1) = pattern

\* _check_powershell_blocklist: the reason of the first entry whose pattern
\* occurs in the command, lowered, with "/" replaced and stripped; None
\* when no pattern occurs.
CheckPowershellBlocklist(cmd) ==
    LET cmd_lower == Strip(ReplaceSlash(LowerText(cmd)))
        hits == { k \in 1 .. Len(_PS_BLOCKLIST) :
                    Contains(_PS_BLOCKLIST[k].pattern, cmd_lower) }
    IN  IF hits = { } THEN None
        ELSE _PS_BLOCKLIST[CHOOSE k \in hits : \A h \in hits : k <= h].reason

\* The commands the shell tool is called with.
FormatDrive == << "F", "o", "r", "m", "a", "t", " ", "C", ":" >>
DeleteWindows == << "d", "e", "l", " ", "/", "s", " ", "c", ":", "\\", "w",
                    "i", "n", "d", "o", "w", "s" >>
StopComputer == << " ", "S", "t", "o", "p", "-", "C", "o", "m", "p", "u",
                   "t", "e", "r", " ", "-", "F", "o", "r", "c", "e", " " >>
ListDirectory == << "d", "i", "r" >>
Commands == { FormatDrive, DeleteWindows, StopComputer, ListDirectory }
NoCmd == << >>

\* _TOOL_MAP: the names execute_tool dispatches on.
ToolNames ==
    { "take_screenshot", "ocr_screenshot", "read_file", "list_directory",
      "get_clipboard", "run_powershell", "write_file", "type_text",
      "open_in_vscode", "press_keys", "click", "open_url", "scroll", "wait",
      "mouse_move", "screenshot_region", "close_browser_tab" }

\* The tools that return at once when their library is missing.
NeedsPyautogui ==
    { "take_screenshot", "type_text", "press_keys", "click", "scroll",
      "mouse_move", "close_browser_tab" }
NeedsOcr == { "ocr_screenshot", "screenshot_region" }

\* The tools whose body tests `safety_level == READ_ONLY`, and those whose
\* body goes on to test `safety_level == CONFIRMED`.
TestsReadOnly ==
    { "run_powershell", "write_file", "type_text", "open_in_vscode",
      "press_keys", "click", "open_url", "close_browser_tab" }
TestsConfirmed ==
    { "run_powershell", "write_file", "type_text", "open_in_vscode",
      "press_keys", "click", "open_url" }

\* The dicts the tools return.
NotInstalled == [ success |-> FALSE, error |-> "not installed" ]
BlockedResult(reason) ==
    [ success |-> FALSE, error |-> "BLOCKED", blocked |-> TRUE,
      block_reason |-> reason ]
ReadOnlyResult ==
    [ success |-> FALSE, error |-> "Blocked - safety is Read-Only" ]
DeniedResult == [ success |-> FALSE, error |-> "Denied by user" ]
RaisedResult == [ success |-> FALSE, error |-> "str(e)" ]
DoneResult == [ success |-> TRUE ]

\* A tool call is in progress.
InCall == tpc \in { "level", "dialog", "act" }

\* The GUI starts: the saved setting is loaded into the menu and into
\* SwarmTools; the callback is registered by the GUI (or, when the tools
\* are used without it, by nobody).
InitSafety ==
    /\ SwarmIdle
    /\ ResearchIdle
    /\ ConfirmIdle
    /\ StreamIdle
    /\ max_tool_rounds = 1
    /\ AgentIdle
    /\ LogIdle
    /\ safety_menu \in SafetyLevels
    /\ safety_level = safety_menu
    /\ _confirm_callback \in BOOLEAN
    /\ HAS_PYAUTOGUI \in BOOLEAN
    /\ HAS_OCR \in BOOLEAN
    /\ _running = FALSE
    /\ tpc = "idle"
    /\ tool = NoTool
    /\ levels = { }
    /\ confirmation = "none"
    /\ tool_result = NoToolResult
    /\ acted = FALSE
    /\ locked = FALSE
    /\ CtorIdle

\* _on_safety_change: the user picks a setting in the menu.  The dialog of
\* a confirmation holds the grab, so the menu is out of reach while one is
\* shown.
OnSafetyChange ==
    /\ tpc # "dialog"
    /\ \E level \in SafetyLevels :
         /\ safety_menu' = level
         /\ safety_level' = level
         /\ levels' = IF InCall THEN levels \cup { level } ELSE levels
    /\ locked' = FALSE
    /\ UNCHANGED << _confirm_callback, HAS_PYAUTOGUI, HAS_OCR, _running, tpc,
                    tool, confirmation, tool_result, acted >>
    /\ UNCHANGED << swarmVars, agentVars, streamVars, researchVars,
                    confirmVars, logVars, ctorVars >>

\* _run_swarm and _run_research: nothing while a run is in progress;
\* otherwise the setting of the menu is written to SwarmTools and the run
\* starts.
RunStarts ==
    /\ ~ _running
    /\ safety_level' = safety_menu
    /\ _running' = TRUE
    /\ UNCHANGED << safety_menu, _confirm_callback, HAS_PYAUTOGUI, HAS_OCR,
                    tpc, tool, levels, confirmation, tool_result, acted,
                    locked >>
    /\ UNCHANGED << swarmVars, agentVars, streamVars, researchVars,
                    confirmVars, logVars, ctorVars >>

\* The run returns, after its tool calls.
RunEnds ==
    /\ _running
    /\ ~ InCall
    /\ _running' = FALSE
    /\ UNCHANGED << safety_level, safety_menu, _confirm_callback,
                    HAS_PYAUTOGUI, HAS_OCR, tpc, tool, levels, confirmation,
                    tool_result, acted, locked >>
    /\ UNCHANGED << swarmVars, agentVars, streamVars, researchVars,
                    confirmVars, logVars, ctorVars >>

\* The tests a tool function makes before anything else, in the order of
\* its body: the library, the blocklist (the shell only), then the first
\* reading of safety_level.  to |-> where the call goes on.
FirstTests(name, cmd) ==
    IF \/ name \in NeedsPyautogui /\ ~ HAS_PYAUTOGUI
       \/ name \in NeedsOcr /\ ~ HAS_OCR
    THEN [ to |-> "returned", result |-> NotInstalled ]
    ELSE IF name = "run_powershell" /\ CheckPowershellBlocklist(cmd) # None
    THEN [ to |-> "returned",
           result |-> BlockedResult(CheckPowershellBlocklist(cmd)) ]
    ELSE IF name \in TestsReadOnly /\ safety_level = READ_ONLY
    THEN [ to |-> "returned", result |-> ReadOnlyResult ]
    ELSE IF name \in TestsConfirmed
    THEN [ to |-> "level", result |-> NoToolResult ]
    ELSE [ to |-> "act", result |-> NoToolResult ]

\* A worker of the run calls a tool: the lambda of _TOOL_MAP calls the
\* function of SwarmTools, which makes its first tests.
ToolCall ==
    /\ _running
    /\ ~ InCall
    /\ \E name \in ToolNames,
          cmd \in Commands \cup { NoCmd } :
         /\ (name = "run_powershell") = (cmd # NoCmd)
         /\ tool' = [ name |-> name, cmd |-> cmd ]
         /\ tpc' = FirstTests(name, cmd).to
         /\ tool_result' = FirstTests(name, cmd).result
    /\ levels' = { safety_level }
    /\ confirmation' = "none"
    /\ acted' = FALSE
    /\ UNCHANGED << safety_level, safety_menu, _confirm_callback,
                    HAS_PYAUTOGUI, HAS_OCR, _running, locked >>
    /\ UNCHANGED << swarmVars, agentVars, streamVars, researchVars,
                    confirmVars, logVars, ctorVars >>

\* `if SwarmTools.safety_level == CONFIRMED`: the second reading of the
\* level.  _request_confirmation calls the callback when one is registered
\* and returns False otherwise.
SecondTest ==
    /\ tpc = "level"
    /\ IF safety_level = CONFIRMED
       THEN IF _confirm_callback
            THEN /\ tpc' = "dialog"
                 /\ confirmation' = "pending"
                 /\ tool_result' = tool_result
            ELSE /\ tpc' = "returned"
                 /\ confirmation' = "none"
                 /\ tool_result' = DeniedResult
       ELSE /\ tpc' = "act"
            /\ UNCHANGED << confirmation, tool_result >>
    /\ UNCHANGED << safety_level, safety_menu, _confirm_callback,
                    HAS_PYAUTOGUI, HAS_OCR, _running, tool, levels, acted,
                    locked >>
    /\ UNCHANGED << swarmVars, agentVars, streamVars, researchVars,
                    confirmVars, logVars, ctorVars >>

\* The callback returns: the user allowed, denied, denied and locked
\* (_deny_and_lock writes READ_ONLY to SwarmTools, not to the menu), or
\* did not answer within the timeout.
DialogAnswer ==
    /\ tpc = "dialog"
    /\ \E choice \in { "allow", "deny", "lock", "timeout" } :
         /\ IF choice = "allow"
            THEN /\ tpc' = "act"
                 /\ confirmation' = "allowed"
                 /\ tool_result' = tool_result
            ELSE /\ tpc' = "returned"
                 /\ confirmation' = "denied"
                 /\ tool_result' = DeniedResult
         /\ IF choice = "lock"
            THEN /\ safety_level' = READ_ONLY
                 /\ levels' = levels \cup { READ_ONLY }
                 /\ locked' = TRUE
            ELSE UNCHANGED << safety_level, levels, locked >>
    /\ UNCHANGED << safety_menu, _confirm_callback, HAS_PYAUTOGUI, HAS_OCR,
                    _running, tool, acted >>
    /\ UNCHANGED << swarmVars, agentVars, streamVars, researchVars,
                    confirmVars, logVars, ctorVars >>

\* The try block of the tool: the action is performed and success is
\* returned, or an exception is turned into a failure result (the action
\* may or may not have taken place by then).
Act ==
    /\ tpc = "act"
    /\ \/ /\ acted' = TRUE
          /\ tool_result' = DoneResult
       \/ /\ acted' \in BOOLEAN
          /\ tool_result' = RaisedResult
    /\ tpc' = "returned"
    /\ UNCHANGED << safety_level, safety_menu, _confirm_callback,
                    HAS_PYAUTOGUI, HAS_OCR, _running, tool, levels,
                    confirmation, locked >>
    /\ UNCHANGED << swarmVars, agentVars, streamVars, researchVars,
                    confirmVars, logVars, ctorVars >>

NextSafety ==
    \/ OnSafetyChange
    \/ RunStarts
    \/ RunEnds
    \/ ToolCall
    \/ SecondTest
    \/ DialogAnswer
    \/ Act

SpecSafety == InitSafety /\ [][NextSafety]_vars

\* ------------------------------------------- execute_tool and ToolLogger
\* What func(args) does in an invocation: it returns a dict that reports
\* success, a failure or a blocked command, or it raises.
FuncOutcomes == { "success", "failure", "blocked", "raises" }
UnknownTool == "no_such_tool"

\* The calls in progress; execute_tool is followed while the calls made
\* since the last clear are at most MaxToolCalls.
InFlight == { t \in Threads : lpc[t] # "idle" }
MaxEntries == MaxToolCalls

\* The dict an invocation returns: the error of the `if not func` branch,
\* the dict func(args) returned, or the error the except clause makes of
\* the exception.
GatewayResult(name, outcome) ==
    IF name \notin ToolNames
    THEN [ success |-> FALSE, error |-> "Unknown tool" ]
    ELSE IF outcome = "raises"
    THEN [ success |-> FALSE, error |-> "str(e)" ]
    ELSE IF outcome = "blocked"
    THEN BlockedResult("Cannot format drives")
    ELSE IF outcome = "failure"
    THEN [ success |-> FALSE, error |-> "No such file" ]
    ELSE DoneResult

\* The entry ToolLogger.log builds: the tool, result.get("success", False)
\* and the blocked flag execute_tool read from the result.
Entry(name, res) ==
    [ tool |-> name, success |-> res.success,
      blocked |-> Get(res, "blocked", FALSE) ]

\* A logger that keeps the calls that succeeded only.
ToolLoggerLog_successOnly(entries, entry) ==
    IF entry.success THEN Append(entries, entry) ELSE entries

\* ToolLogger.log: `with _lock: cls._entries.append(entry)`.
ToolLoggerLog(entries, entry) == Append(entries, entry)

InitLog ==
    /\ SwarmIdle
    /\ ResearchIdle
    /\ ConfirmIdle
    /\ StreamIdle
    /\ max_tool_rounds = 1
    /\ AgentIdle
    /\ SafetyIdle
    /\ LogIdle
    /\ CtorIdle

\* A worker calls execute_tool: _TOOL_MAP.get(name).  An unknown name goes
\* straight to the log; otherwise func(args) is about to run.
Invoke(t) ==
    /\ lpc[t] = "idle"
    /\ Len(_entries) + Cardinality(InFlight) < MaxEntries
    /\ \E name \in { "read_file", "run_powershell", UnknownTool } :
         /\ invoked' = [ invoked EXCEPT ![t] = name ]
         /\ lpc' = [ lpc EXCEPT ![t] = IF name \in ToolNames THEN "func"
                                       ELSE "log" ]
    /\ func_outcome' = [ func_outcome EXCEPT ![t] = "<none>" ]
    /\ UNCHANGED << _entries, invocations, tool_returned >>
    /\ UNCHANGED << swarmVars, agentVars, streamVars, researchVars,
                    confirmVars, safetyVars, ctorVars >>

\* func(args) runs in the try block, beside the calls of the other workers.
RunFunc(t) ==
    /\ lpc[t] = "func"
    /\ \E outcome \in FuncOutcomes :
         /\ outcome = "blocked" => invoked[t] = "run_powershell"
         /\ func_outcome' = [ func_outcome EXCEPT ![t] = outcome ]
    /\ lpc' = [ lpc EXCEPT ![t] = "log" ]
    /\ UNCHANGED << _entries, invoked, invocations, tool_returned >>
    /\ UNCHANGED << swarmVars, agentVars, streamVars, researchVars,
                    confirmVars, safetyVars, ctorVars >>

\* ToolLogger.log(...) and `return result`, in each of the three branches
\* of execute_tool.  The entry is appended under the lock of the logger;
\* an exception of the GUI's entry callback is swallowed by log.
LogAndReturn(t) ==
    /\ lpc[t] = "log"
    /\ LET res == GatewayResult(invoked[t], func_outcome[t])
       IN  /\ _entries' = ToolLoggerLog(_entries, Entry(invoked[t], res))
           /\ tool_returned' = [ tool_returned EXCEPT ![t] = res ]
    /\ invocations' = invocations + 1
    /\ lpc' = [ lpc EXCEPT ![t] = "idle" ]
    /\ UNCHANGED << invoked, func_outcome >>
    /\ UNCHANGED << swarmVars, agentVars, streamVars, researchVars,
                    confirmVars, safetyVars, ctorVars >>

\* ToolLogger.clear, from the GUI: `with _lock: cls._entries.clear()`.
Clear ==
    /\ _entries # << >>
    /\ _entries' = << >>
    /\ invocations' = 0
    /\ UNCHANGED << lpc, invoked, func_outcome, tool_returned >>
    /\ UNCHANGED << swarmVars, agentVars, streamVars, researchVars,
                    confirmVars, safetyVars, ctorVars >>

NextLog ==
    \/ \E t \in Threads : Invoke(t)
    \/ \E t \in Threads : RunFunc(t)
    \/ \E t \in Threads : LogAndReturn(t)
    \/ Clear

SpecLog == InitLog /\ [][NextLog]_vars

\* ------------------------------------------- MiniGrokSwarm.__init__
\* The strings a caller hands over as keys: a key, a key with blanks around
\* it, the empty string, a string of blanks.
GivenKeys == { "xai-1", " xai-2 ", "", "  " }

\* k.strip() on these strings.
StripKey(k) ==
    IF k = " xai-2 " THEN "xai-2" ELSE IF k = "  " THEN "" ELSE k

\* The argument api_keys: None, or a list of up to MaxKeys + 1 strings.
GivenLists ==
    { [ isNone |-> TRUE, keys |-> << >> ] }
    \cup { [ isNone |-> FALSE, keys |-> l ] :
             l \in UNION { [ 1 .. n -> GivenKeys ] : n \in 0 .. MaxKeys + 1 } }

\* A constructor that takes the list as it is given.
FilterKeys_keepsBlanks(given) ==
    IF given.isNone THEN << >> ELSE given.keys

\* keys = [k for k in (api_keys or []) if k.strip()]
FilterKeys(given) ==
    SelectSeq(IF given.isNone THEN << >> ELSE given.keys,
              LAMBDA k : StripKey(k) # "")

\* The roles of the tier the object is built for.
TierRoles == SubSeq(AGENT_ROLES, 1, 1)

\* No object yet: the constructor is about to be called with a list.
InitConstruct ==
    /\ RunIdle
    /\ AgentIdle
    /\ StreamIdle
    /\ ResearchIdle
    /\ ConfirmIdle
    /\ GatewayIdle
    /\ api_keys = << >>
    /\ max_tool_rounds = 1
    /\ _cancelled = FALSE
    /\ given_keys \in GivenLists
    /\ opc = "new"

\* __init__: raise ValueError without a key that is not blank, else keep
\* the filtered list, the roles of the tier and a clear flag.
Construct ==
    /\ opc = "new"
    /\ IF FilterKeys(given_keys) = << >>
       THEN /\ opc' = "raised"
            /\ UNCHANGED << api_keys, roles, _cancelled >>
       ELSE /\ api_keys' = FilterKeys(given_keys)
            /\ roles' = TierRoles
            /\ _cancelled' = FALSE
            /\ opc' = "constructed"
    /\ UNCHANGED << agentVars, streamVars, researchVars, confirmVars,
                    gatewayVars, given_keys, loopReturned >>
    /\ UNCHANGED << max_tool_rounds, pc, submitted, yielded, agent_outputs,
                    merged, result, wpc, key, round, output, future,
                    usedKeys, sawCancel, cancelLog >>

\* The holder of the object calls run.
CallRun ==
    /\ opc = "constructed"
    /\ pc = "idle"
    /\ rpc = "idle"
    /\ pc' = "launched"
    /\ UNCHANGED << agentVars, asideVars, loopReturned >>
    /\ UNCHANGED << roles, api_keys, max_tool_rounds, _cancelled, submitted,
                    yielded, agent_outputs, merged, result, wpc, key, round,
                    output, future, usedKeys, sawCancel, cancelLog >>

\* The holder of the object calls run_research_loop.
CallResearchLoop ==
    /\ opc = "constructed"
    /\ pc = "idle"
    /\ rpc = "idle"
    /\ rpc' = "called"
    /\ UNCHANGED << max_rounds, on_round, round_num, current_task,
                    scraper_output, catalog_result, output_text, raw_file,
                    files_created, all_summaries, index_listing, rresult,
                    events >>
    /\ UNCHANGED << swarmVars, agentVars, streamVars, confirmVars,
                    gatewayVars, ctorVars >>

NextConstruct ==
    \/ Construct
    \/ CallRun
    \/ CallResearchLoop
    \/ Next
    \/ NextResearch

SpecConstruct == InitConstruct /\ [][NextConstruct]_vars

\* ================================================================ claims
\* What run returned: the cancelled result, or a result of phase two.
RunReturned == pc = "returned"
ReturnedCancelled ==
    /\ RunReturned
    /\ ~ result.success
    /\ result.error = "Cancelled"
ReturnedFromSynthesis == RunReturned /\ ~ ReturnedCancelled

\* The role names that are keys of the outcome set d.
RolesIn(d) == { d[j][1] : j \in 1 .. Len(d) }

\* The outcome set d holds the outcome of worker i, with its text.
Holds(d, i) ==
    \E j \in 1 .. Len(d) : d[j] = << roles[i], output[i] >>

\* ---------------------------------------------------------------- C1
\* C1: every backend call of the worker for the role at position i (0-based)
\* uses the credential api_keys[i mod K]; the credential of a worker is fixed
\* by its position and the credential list alone, whatever the scheduling.
C1_RoundRobinCredential ==
    \A i \in Workers :
        LET assigned == api_keys[((i - 1) % Len(api_keys)) + 1]
        IN  /\ usedKeys[i] \subseteq { assigned }
            /\ key[i] \in { NoOutput, assigned }

\* Two workers have called the backend, the second through the credential
\* its position selects: the second key, or the first one again when the
\* list holds one key; the second worker has spent a budget of two rounds.
C1_Witness ==
    /\ N = 2
    /\ max_tool_rounds = 2
    /\ usedKeys[1] = { api_keys[1] }
    /\ usedKeys[2] = { api_keys[(1 % Len(api_keys)) + 1] }
    /\ wpc[2] = "finish" /\ output[2] = "draft"

\* ---------------------------------------------------------------- C4
\* C4: a cancel() after run began and before any worker completed makes run
\* return the cancelled result with an empty outcome set.
C4_EarlyCancelReturnsNothing ==
    ( RunReturned /\ cancelLog.early ) =>
        /\ ReturnedCancelled
        /\ result.agent_outputs = << >>

\* Such a run in which a worker that was in flight at the cancel() went on
\* to complete with an answer.
C4_Witness ==
    /\ RunReturned /\ cancelLog.early
    /\ \E i \in Workers : future[i] = "result" /\ output[i] = "answer"

\* ---------------------------------------------------------------- C5
\* C5: the cancelled result holds the outcome of every worker that had
\* completed when cancel() was invoked.
C5_CancelKeepsCompletedWork ==
    ReturnedCancelled =>
        \A i \in cancelLog.done : Holds(result.agent_outputs, i)

\* ---------------------------------------------------------------- C6
\* C6: a cancel() issued after the launch of a run and before its synthesis
\* phase is never lost: the flag is still set when run returns, and run
\* returns the cancelled result.
C6_CancelNeverLost ==
    ( RunReturned /\ cancelLog.requested ) =>
        ( _cancelled /\ ReturnedCancelled )

\* ---------------------------------------------------------------- C7
\* The Agent Loop of worker i failed: it raised, or it returned an error
\* text.
LoopFailed(i) ==
    /\ wpc[i] \in { "finish", "done" }
    /\ usedKeys[i] # {}
    /\ \/ ~ loopReturned[i]
       \/ output[i] \in { ErrorText(roles[i], "HTTP 500: overloaded") }

\* C7: when the Agent Loop of one role returns an error text or raises, the
\* outcome of every other role is recorded in agent_outputs when phase two
\* of a run that is not cancelled begins, and run returns what synthesis
\* made of these outcomes.
C7_SiblingsRecorded ==
    /\ ( pc = "phase2" \/ ReturnedFromSynthesis ) =>
           \A i, j \in Workers :
               ( i # j /\ LoopFailed(i) ) => roles[j] \in OutputRoles
    /\ ReturnedFromSynthesis =>
           /\ merged = agent_outputs
           /\ result.agent_outputs = agent_outputs

\* ---------------------------------------------------------------- C8
\* C8: an exception raised inside a worker becomes the outcome of its role:
\* no role is missing from the outcome set of a run that is not cancelled.
C8_NoRoleMissing ==
    ReturnedFromSynthesis =>
        \A i \in Workers : roles[i] \in RolesIn(result.agent_outputs)

\* ---------------------------------------------------------------- C9
\* C9: in a run that is not cancelled and in which every Agent Loop
\* returned, the merged document holds exactly one section per role and the
\* outcome set exactly N entries, keyed by the role names.
C9_OneSectionPerRole ==
    ( ReturnedFromSynthesis /\ \A i \in Workers : loopReturned[i] ) =>
        /\ Len(result.agent_outputs) = N
        /\ RolesIn(result.agent_outputs) = { roles[i] : i \in Workers }
        /\ Len(merged) = N
        /\ RolesIn(merged) = { roles[i] : i \in Workers }

\* --------------------------------------------------------------- C10
\* C10: a worker that begins executing after cancel() was invoked on the
\* swarm never enters its Agent Loop: the step that starts it completes it,
\* and it has made no backend call (and so no tool invocation, which only a
\* round of the loop makes).
C10_NoStartAfterCancel ==
    [][ \A i \in Workers :
            ( cancelLog.requested /\ wpc[i] \in { "new", "queued" } ) =>
                /\ wpc'[i] \in { "new", "queued", "done" }
                /\ usedKeys'[i] = {} ]_vars

\* --------------------------------------------------------------- C11
\* C11: an Agent Loop that was making its first backend call when the flag
\* was set finishes the round of that call and begins no further round: once
\* it has finished a round it makes no step inside _run_agent.
C11_InFlightLoopStops ==
    [][ \A i \in Workers :
            ( /\ _cancelled
              /\ cancelLog.inflight = i
              /\ wpc[i] = "loop"
              /\ round[i] >= 1 ) =>
                ( wpc'[i] = "loop" /\ round'[i] = round[i] ) ]_vars

\* --------------------------------------------------------------- C12
\* Phase two of the run has begun: the run is in it, has returned from it
\* or was left by an exception in it.
SynthesisBegun == pc \in { "phase2", "raised" } \/ ReturnedFromSynthesis

\* C12: phase two begins only when every worker of the run has terminated,
\* so no Agent Loop runs beside the streaming consumer; and a run whose flag
\* is set when phase one ends returns the cancelled result without starting
\* synthesis.
C12_SynthesisAfterWorkers ==
    /\ [] ( SynthesisBegun =>
              \A i \in Workers : wpc[i] = "done" /\ future[i] # "pending" )
    /\ [][ ( pc = "join" /\ pc' # "join" /\ _cancelled ) =>
              ( pc' = "returned" /\ result' = CancelledResult ) ]_vars

\* Synthesis ran after both workers had been through their Agent Loops, one
\* of them for two rounds; a cancel() that came after phase one had ended
\* left the flag set and did not stop it.
C12_Witness ==
    /\ ReturnedFromSynthesis
    /\ _cancelled
    /\ N = 2
    /\ \A i \in Workers : usedKeys[i] # {}
    /\ max_tool_rounds = 2

\* ---------------------------------------------------------------- C2
\* The positions of the tool messages, and the ids they refer to.
ToolPositions == { j \in 1 .. Len(messages) : messages[j].role = "tool" }

\* The request with this id came in an assistant message before position j.
RequestedBefore(id, j) ==
    \E a \in 1 .. (j - 1) :
        /\ messages[a].role = "assistant"
        /\ \E t \in 1 .. Len(messages[a].tool_calls) :
               messages[a].tool_calls[t].id = id

\* C2: between rounds and in every state _run_agent returns from, there are
\* as many tool messages as tool-call requests received, each tool message
\* answers an earlier request, no request is answered twice and none is left
\* unanswered.
C2_OneToolMessagePerRequest ==
    apc \in { "loop", "returned" } =>
        /\ Cardinality(ToolPositions) = Len(received)
        /\ \A j \in ToolPositions :
               RequestedBefore(messages[j].tool_call_id, j)
        /\ \A j, k \in ToolPositions :
               messages[j].tool_call_id = messages[k].tool_call_id => j = k
        /\ \A r \in 1 .. Len(received) :
               \E j \in ToolPositions : messages[j].tool_call_id = received[r]

\* _run_agent returned after two rounds that brought three requests.
C2_Witness ==
    /\ apc = "returned"
    /\ calls = 2
    /\ Len(received) = 3

\* ---------------------------------------------------------------- C3
\* The backend calls answered with tool calls: each left an assistant
\* message.
AssistantCount ==
    Cardinality({ j \in 1 .. Len(messages) : messages[j].role = "assistant" })

\* C3: _run_agent never makes more than max_tool_rounds backend calls; when
\* every call is answered with tool calls it stops after exactly
\* max_tool_rounds calls, not before, and then returns a text, the partial
\* answer or the placeholder, as an ordinary return value.
C3_RoundBudgetThenText ==
    /\ calls <= max_tool_rounds
    /\ ( apc = "loop" /\ AssistantCount = calls ) => calls < max_tool_rounds
    /\ ( apc = "returned" /\ AssistantCount = calls ) =>
           /\ calls = max_tool_rounds
           /\ returned # None

\* --------------------------------------------------------------- C13
\* The non-empty text fragments a backend puts on its lines.
Fragments == { "Hel", "lo" }

\* The line carries a non-empty text fragment; the fragment it carries.
CarriesText(line) ==
    \E c \in Fragments :
        line \in { GrokData(c), OllamaData(c, TRUE), OllamaData(c, FALSE) }
FragmentOf(line) ==
    CHOOSE c \in Fragments :
        line \in { GrokData(c), OllamaData(c, TRUE), OllamaData(c, FALSE) }

\* The line closes the stream of backend b: the [DONE] event of Grok, an
\* object of Ollama whose "done" is true.
EndsStream(b, line) ==
    IF b = "grok" THEN line = GrokDone
    ELSE \/ line = [ prefix |-> "", payload |-> [ json |-> [ done |-> TRUE ] ] ]
         \/ \E c \in Fragments \cup { "" } : line = OllamaData(c, TRUE)

\* The fragments of the lines up to the one that closes the stream, in the
\* order of the lines.
RECURSIVE Emitted(_, _)
Emitted(b, lines) ==
    IF lines = << >> THEN << >>
    ELSE ( IF CarriesText(Head(lines)) THEN << FragmentOf(Head(lines)) >>
           ELSE << >> )
         \o ( IF EndsStream(b, Head(lines)) THEN << >>
              ELSE Emitted(b, Tail(lines)) )

SynthesisFailed ==
    \/ pc = "raised" /\ result = [ raised |-> "verifier call" ]
    \/ ReturnedFromSynthesis /\ ~ result.success

\* C14: every value run returns carries the outcome set as computed so far;
\* and when the synthesis backend call fails, run returns success false with
\* the backend's error and the outcome set of phase one, unchanged.
C14_ResultCarriesOutcomes ==
    /\ RunReturned => result.agent_outputs = agent_outputs
    /\ SynthesisFailed =>
           /\ RunReturned
           /\ result = [ success |-> FALSE, error |-> "HTTP 500: overloaded",
                         agent_outputs |-> agent_outputs ]

\* --------------------------------------------------------------- C15
\* C15: at every moment at most max(N, 2) Agent Loops of the run execute;
\* the units of work submitted are one for each of the first `submitted`
\* roles, and when the submission is over there is one for every role: no
\* role has two, none is left out.
C15_OneUnitPerRole ==
    /\ Cardinality({ i \in Workers : wpc[i] = "loop" })
         <= ( IF N >= 2 THEN N ELSE 2 )
    /\ submitted <= N
    /\ \A i \in Workers : ( wpc[i] # "new" ) <=> ( i <= submitted )
    /\ pc \in { "collect", "join", "phase2", "returned", "raised" } =>
           submitted = N
    /\ \A i, j \in Workers : roles[i] = roles[j] => i = j

\* Every role of a list of MaxRoles roles is inside its Agent Loop at the
\* same moment.
C15_Witness ==
    /\ N = MaxRoles
    /\ \A i \in Workers : wpc[i] = "loop" /\ usedKeys[i] # {}

\* --------------------------------------------------------------- C16
\* The last backend call of _run_agent failed: it returned an error, which
\* the loop returned as its error text, or an exception left it (the round
\* of that call appended no assistant message).
BackendFailed ==
    \/ apc = "raised" /\ AssistantCount < calls
    \/ apc = "returned" /\ returned = ErrorText(role_name, "HTTP 500: overloaded")

\* C16: when a backend call of _run_agent fails, the loop ends there: the
\* round runs no tool, and _run_agent returns, and does not raise, the error
\* text that names the role and the failure.
C16_BackendFailureReturned ==
    BackendFailed =>
        /\ apc = "returned"
        /\ returned = ErrorText(role_name, "HTTP 500: overloaded")
        /\ AssistantCount = calls - 1
        /\ Cardinality(ToolPositions) = Len(received)

\* --------------------------------------------------------------- C17
\* The texts of the assistant messages of the conversation, in order: the
\* non-empty texts the tool-calling responses carried.
AssistantTexts ==
    LET withText(m) == m.role = "assistant" /\ m.content # None
    IN  SelectSeq(messages, withText)

\* C17: when the budget is exhausted _run_agent returns an assistant text
\* the backend sent (the last response's, or the last there is), or the
\* placeholder when the tool-calling responses carried none; never an empty
\* or null value.
C17_ExhaustedReturnsText ==
    ( apc = "returned" /\ AssistantCount = calls ) =>
        /\ returned \notin { None, "" }
        /\ AssistantTexts = << >> => returned = "[Max tool rounds]"
        /\ returned # "[Max tool rounds]" =>
               \E j \in 1 .. Len(AssistantTexts) :
                   AssistantTexts[j].content = returned

\* --------------------------------------------------------------- C18
\* The positions of the markers of the catalog text that some text
\* follows, and the text that follows the marker at p: from the first
\* character that is not whitespace to the end of its line, trimmed.
Occurrences ==
    { p \in 1 .. Len(output_text) :
        /\ Upper(output_text[p]) = "NEXT:"
        /\ \E q \in p + 1 .. Len(output_text) : ~ IsSpace(output_text[q]) }
FirstOccurrence == CHOOSE p \in Occurrences : \A q \in Occurrences : p <= q
TextStart(p) ==
    CHOOSE q \in p + 1 .. Len(output_text) :
        /\ ~ IsSpace(output_text[q])
        /\ \A k \in p + 1 .. q - 1 : IsSpace(output_text[k])
TextEnd(p) ==
    CHOOSE e \in TextStart(p) .. Len(output_text) :
        /\ ~ IsSpace(output_text[e])
        /\ \A k \in TextStart(p) .. e : output_text[k] # "\n"
        /\ \A k \in e + 1 .. Len(output_text) :
              (\A j \in e + 1 .. k : output_text[j] # "\n")
                  => output_text[k] = " "
TextOf(p) == JoinText(SubSeq(output_text, TextStart(p), TextEnd(p)))

\* C18: the subtopic of the next round is the text of the first NEXT:
\* of the catalog text of the round, in document order and in either
\* case, also when several are present; with no match it is a generated
\* default that holds the topic and the number of the next round; and it
\* is never empty.
C18_FirstNextIsSubtopic ==
    rpc = "top" /\ round_num >= 1 /\ files_created = << >> /\ events = << >>
    =>
    /\ current_task # ""
    /\ Occurrences # {} => current_task = TextOf(FirstOccurrence)
    /\ Occurrences = {} =>
          current_task = Topic \o " - deeper dive round "
                               \o ToString(round_num + 1)

\* Two NEXT: lines, of which the first one was taken.
C18_Witness ==
    /\ rpc = "top"
    /\ output_text = << "next:", "alpha", "\n", "NEXT:", "beta" >>
    /\ current_task = "alpha"

\* --------------------------------------------------------------- C19
\* What a loop of r completed rounds is claimed to list: the catalog of
\* each round in round order, each followed by the raw file of its round
\* if and only if that file exists and is not empty.
RECURSIVE RoundArtifacts(_)
RoundArtifacts(r) ==
    IF r = 0 THEN << >>
    ELSE RoundArtifacts(r - 1) \o << RoundPath(r) >>
         \o (IF raw_file[r].exists /\ raw_file[r].size > 0
             THEN << RawPath(r) >> ELSE << >>)

\* C19: after a loop that completed R rounds the master index lists the
\* R round catalogs in round order, the raw file of each round if and
\* only if it exists and is not empty, and the master index itself; and
\* the returned list holds the same entries.
C19_IndexListsArtifacts ==
    rpc = "returned" =>
        /\ index_listing =
             RoundArtifacts(Len(all_summaries)) \o << IndexPath >>
        /\ rresult.files_created = index_listing

\* --------------------------------------------------------------- C20
\* The invocations of on_round, in order.
IsOnRound(e) == e.ev = "on_round"
OnRoundEvents == SelectSeq(events, IsOnRound)

\* C20: the round numbers passed to on_round are 1, 2, 3, ... with no
\* repeat and no gap, and before the collector of round N makes its first
\* backend call on_round was invoked with N, max_rounds and the subtopic
\* that collector is given.
C20_RoundsAnnouncedInOrder ==
    on_round # None =>
        /\ \A j \in 1 .. Len(OnRoundEvents) : OnRoundEvents[j].n = j
        /\ \A c \in 1 .. Len(events) :
              events[c].ev = "call" =>
                  \E o \in 1 .. c - 1 :
                      /\ events[o].ev = "on_round"
                      /\ events[o].n = events[c].n
                      /\ events[o].max = max_rounds
                      /\ events[o].task = events[c].task

\* Two rounds were announced and collected, the second on the follow-up
\* of the first.
C20_Witness ==
    /\ on_round # None
    /\ Len(OnRoundEvents) = 2
    /\ OnRoundEvents[2].n = 2
    /\ OnRoundEvents[2].task = "alpha"
    /\ \E c \in 1 .. Len(events) :
          events[c].ev = "call" /\ events[c].n = 2

\* --------------------------------------------------------------- C21
\* How the loop ended, and what happened on the way.
LoopEnded == rpc \in { "returned", "raised" }
CancelInvoked == \E c \in 1 .. Len(events) : events[c].ev = "cancel"
RaisedByCallback ==
    rpc = "raised" /\ rresult.by \in { "on_round", "status callback" }
RaisedOnNullReply ==
    rpc = "raised" /\ rresult.by = "re.sub" /\ catalog_result.kind = "reply"
Listed(path) == \E j \in 1 .. Len(index_listing) : index_listing[j] = path

\* C21: a failure of the collector or of the catalog call of a round
\* never aborts the loop: when cancel() is never invoked (and no callback
\* of the caller raises, and no successful call answers with a null
\* text), the loop returns after exactly max_rounds rounds, each of which
\* persisted its catalog.
C21_FailuresNeverAbort ==
    LoopEnded /\ ~ CancelInvoked /\ ~ RaisedByCallback /\ ~ RaisedOnNullReply
    =>
    /\ rpc = "returned"
    /\ all_summaries = [ n \in 1 .. max_rounds |-> n ]
    /\ \A n \in 1 .. max_rounds : Listed(RoundPath(n))

\* --------------------------------------------------------------- C22
\* A round has just persisted its catalog; its collector failed (the
\* loop holds the text made of the failure); its catalog call failed (the
\* call returned an error dict).
CatalogWritten ==
    /\ rpc = "top"
    /\ all_summaries # << >>
    /\ all_summaries[Len(all_summaries)] = round_num
CollectorFailed == scraper_output = Text(ScraperError)
CatalogFailed == catalog_result.kind = "error"

\* C22: when the collector or the catalog call of a round fails, the
\* content persisted in the catalog of the round is an error placeholder
\* that describes that failure, not the output of another component.
C22_FailurePersistsPlaceholder ==
    CatalogWritten /\ (CollectorFailed \/ CatalogFailed)
    =>
    \/ CollectorFailed /\ output_text = ScraperError
    \/ CatalogFailed /\ output_text = catalog_result.error

\* --------------------------------------------------------------- C23
\* The event at position c begins something of a round: an invocation of
\* on_round, a collector call, a catalog call.
BeginsWork(c) == events[c].ev \in { "on_round", "call", "catalog" }

IsIndexPath(f) == f = IndexPath

\* C23: once the cancellation flag is set no new round is started: no
\* on_round is invoked and no collector or catalog call begins any more;
\* the loop still ends by writing the master index, once, and the result
\* reports success false.
C23_CancelStopsRounds ==
    /\ \A c \in 1 .. Len(events) :
          events[c].ev = "cancel" =>
              \A d \in c + 1 .. Len(events) : ~ BeginsWork(d)
    /\ LoopEnded /\ CancelInvoked =>
          /\ rpc = "returned"
          /\ Len(SelectSeq(rresult.files_created, IsIndexPath)) = 1
          /\ ~ rresult.success

\* --------------------------------------------------------------- C24
\* C24: at the end of the loop, by exhaustion or by cancellation, the
\* master index lists the files of every round that was started: for each
\* round on_round was invoked for, its catalog, and its raw file when
\* that exists and is not empty, also for a round cancel() was invoked
\* during.
C24_IndexListsStartedRounds ==
    rpc = "returned" =>
        \A c \in 1 .. Len(events) :
            events[c].ev = "on_round" =>
                /\ Listed(RoundPath(events[c].n))
                /\ raw_file[events[c].n].exists
                   /\ raw_file[events[c].n].size > 0
                   => Listed(RawPath(events[c].n))

\* --------------------------------------------------------------- C25
\* The confirmation dialogs the human has before them.
OpenDialogs == { i \in 1 .. Len(dialogs) : dialogs[i].open }

\* C25: at most one confirmation dialog is shown at any time: no second
\* dialog opens while an earlier one is still open, also when the waiting
\* tool thread gives up after its timeout.
C25_OneDialogAtATime == Cardinality(OpenDialogs) <= 1

\* --------------------------------------------------------------- C26
\* The results that report a failure, a denial or a blocked command.
FailureResults == { Failed, Caught, Blocked, Denied }
AssistantPositions ==
    { a \in 1 .. Len(messages) : messages[a].role = "assistant" }

\* The j-th request of the assistant message at a has its tool message,
\* right after those of the requests before it.
AnsweredAt(a, j) ==
    /\ a + j <= Len(messages)
    /\ messages[a + j].role = "tool"
    /\ messages[a + j].tool_call_id = messages[a].tool_calls[j].id

\* The loop returned right after the tool calls of the message at a.
ReturnedAfter(a) ==
    apc = "returned" /\ a + Len(messages[a].tool_calls) = Len(messages)

\* C26: a tool result that reports failure, denial or blocked is fed back
\* like any other: it is the tool message of its request, the requests
\* after it are handled as well, and the loop goes on to the next round;
\* it ends after such a result only because the rounds ran out.
C26_FailedResultsFedBack ==
    apc \in { "loop", "returned" } =>
        \A a \in AssistantPositions :
            \A j \in 1 .. Len(messages[a].tool_calls) :
                ( AnsweredAt(a, j)
                  /\ messages[a + j].content \in FailureResults )
                =>
                /\ \A k \in j + 1 .. Len(messages[a].tool_calls) :
                       AnsweredAt(a, k)
                /\ ReturnedAfter(a) => calls = max_tool_rounds
                /\ ( apc = "loop" /\ a + Len(messages[a].tool_calls)
                                       = Len(messages) )
                   => calls < max_tool_rounds

\* A blocked command and a denial in the first round, both fed back, and
\* a second round begun after them.
C26_Witness ==
    /\ Len(messages) >= 6
    /\ messages[3].role = "assistant"
    /\ messages[4].role = "tool" /\ messages[4].content = Blocked
    /\ messages[5].role = "tool" /\ messages[5].content = Denied
    /\ messages[6].role = "assistant"

\* --------------------------------------------------------------- C27
\* The results an undecodable payload may end in: the result of the call
\* with empty arguments, or the error result of execute_tool.
DegradedResult(fn) ==
    IF fn.arguments \in { "{oops", None }
    THEN ExecuteTool(fn.name, "{}")
    ELSE Caught

\* C27: a request whose payload is malformed, null or not a map becomes
\* a call with empty arguments or an error result; the loop is not
\* aborted and holds the tool message of that request, between rounds
\* and whenever it returns.
C27_UndecodableStillAnswered ==
    apc \in { "loop", "returned" } =>
        \A a \in AssistantPositions :
            \A j \in 1 .. Len(messages[a].tool_calls) :
                messages[a].tool_calls[j].function.arguments \in Undecodable
                =>
                /\ AnsweredAt(a, j)
                /\ messages[a + j].content =
                       DegradedResult(messages[a].tool_calls[j].function)

\* A malformed payload and one that is not a map, answered in one round.
C27_Witness ==
    /\ apc = "loop"
    /\ Len(messages) = 5
    /\ messages[3].role = "assistant"
    /\ Len(messages[3].tool_calls) = 2
    /\ messages[3].tool_calls[1].function.arguments = "{oops"
    /\ messages[3].tool_calls[2].function.arguments = "[1, 2]"
    /\ messages[4].content = Failed
    /\ messages[5].content = Caught

\* --------------------------------------------------------------- C28
\* The variables the threads of the pool work on: a step that changes
\* one of them outside the submission is a step of a worker.
workerVars == << key, round, output, future, usedKeys, sawCancel,
                loopReturned >>

\* C28: the outcome storage of a run is never accessed by two threads at
\* once, and the outcome of a role is written at most once: the storage
\* changes only in steps of the thread of run, which is sequential (it
\* creates the storage, then records one completed future per step), no
\* step of a worker writes it or takes anything from it into the merged
\* document or the result, and every write adds a role that was not yet
\* in it.
C28_StorageConfinedToRun ==
    [][ /\ agent_outputs' # agent_outputs =>
            /\ UNCHANGED workerVars
            /\ UNCHANGED wpc
            /\ pc = "collect"
            /\ \E i \in Workers \ yielded :
                  /\ roles[i] \notin RolesIn(agent_outputs)
                  /\ agent_outputs' =
                       Append(agent_outputs, << roles[i], output[i] >>)
        /\ (merged' # merged \/ result' # result) =>
            /\ UNCHANGED workerVars
            /\ UNCHANGED wpc
            /\ pc \in { "join", "phase2" }
      ]_vars

\* An outcome is in the storage while another worker is still inside its
\* Agent Loop.
C28_Witness ==
    /\ pc = "collect"
    /\ agent_outputs # << >>
    /\ \E i \in Workers : wpc[i] = "loop"

\* --------------------------------------------------------------- C29
\* The run has ended: it returned a value or an exception left it.
RunEnded == pc \in { "returned", "raised" }

\* The three terminal states of run: success with the synthesized text,
\* synthesis failure with the outcomes, cancelled with the outcomes.
TerminalResults ==
    { [ success |-> TRUE, final_output |-> "synthesis",
        agent_outputs |-> agent_outputs ],
      [ success |-> FALSE, error |-> "HTTP 500: overloaded",
        agent_outputs |-> agent_outputs ],
      CancelledResult }

\* C29: a run that has ended, and that no callback of the caller ended by
\* raising, has returned one of its three terminal states; a research loop
\* that has ended has returned after at most max_rounds rounds.
C29_EndsInTerminalState ==
    /\ ( RunEnded /\ result # [ raised |-> "status callback" ] ) =>
           pc = "returned" /\ result \in TerminalResults
    /\ ( LoopEnded /\ ~ RaisedByCallback ) =>
           rpc = "returned" /\ round_num <= max_rounds

\* --------------------------------------------------------------- C30
\* The call has returned a dict: success with a reply, or an error.
CallReturned == spc \in { "returned", "failed" }

\* The backend streamed text and closed the stream: the streaming branch
\* returns success with that text.
StreamedText ==
    /\ Consumed(backend, resp) # << >>
    /\ \E j \in 1 .. Len(resp) : EndsStream(backend, resp[j])

\* C30: the verifier call returns the same success flag and the same text
\* whether or not on_verifier_token was supplied: when the backend streamed
\* a text and the call was made without the callback, the call returns
\* success with the text the streaming branch returns for these lines.
C30_CallbackOptional ==
    ( CallReturned /\ ~ on_token /\ StreamedText ) =>
        /\ spc = "returned"
        /\ reply = JoinText(Consumed(backend, resp))

\* --------------------------------------------------------------- C31
\* The tools the module documentation allows under read_only (screenshots,
\* OCR, file reading, directory listing), and the tools that act on the
\* machine: keyboard, mouse, scroll, browser, shell, file write.
ReadOnlyTools ==
    { "take_screenshot", "ocr_screenshot", "screenshot_region", "read_file",
      "list_directory" }
ActingTools ==
    { "type_text", "press_keys", "click", "mouse_move", "scroll", "open_url",
      "open_in_vscode", "close_browser_tab", "run_powershell", "write_file" }

\* The call has returned, and the safety level was `level` all through it.
ReturnedUnder(level) == tpc = "returned" /\ levels = { level }

\* C31: while the safety level is read_only, a tool that acts on the
\* machine (keyboard, mouse, scroll, browser, shell, file write) returns a
\* failure and has not performed its action.
C31_ReadOnlyNeverActs ==
    ( ReturnedUnder(READ_ONLY) /\ tool.name \in ActingTools ) =>
        ~ acted /\ ~ tool_result.success

\* --------------------------------------------------------------- C32
\* The write/execute tools: shell command, file write, typing, key press,
\* click, opening a URL or VS Code, closing a browser tab.
WriteExecuteTools ==
    { "run_powershell", "write_file", "type_text", "press_keys", "click",
      "open_url", "open_in_vscode", "close_browser_tab" }

\* C32: while the safety level is confirmed, a write/execute tool performs
\* its action only when the confirmation callback was invoked for the call
\* and returned true; in every other case the action is not performed and
\* the result is a failure.
C32_ConfirmedAsksFirst ==
    ( ReturnedUnder(CONFIRMED) /\ tool.name \in WriteExecuteTools ) =>
        /\ acted => confirmation = "allowed"
        /\ confirmation # "allowed" => ~ tool_result.success

\* --------------------------------------------------------------- C33
\* The command, whatever its case, contains a pattern of the blocklist.
MatchesBlocklist(cmd) ==
    \E k \in 1 .. Len(_PS_BLOCKLIST) :
        Contains(_PS_BLOCKLIST[k].pattern, LowerText(cmd))

\* C33: a shell command that matches the blocklist is never executed and
\* never asks for a confirmation, under any safety level: the call returns
\* at once, with success false and blocked true.
C33_BlocklistFirst ==
    ( tpc # "idle" /\ tool.name = "run_powershell"
      /\ MatchesBlocklist(tool.cmd) ) =>
        /\ tpc = "returned"
        /\ ~ acted
        /\ confirmation = "none"
        /\ tool_result = BlockedResult(CheckPowershellBlocklist(tool.cmd))

\* --------------------------------------------------------------- C34
\* C34: after Deny & Lock Read-Only the safety level stays read_only, also
\* in later runs, until the user changes the setting.
C34_LockHolds == locked => safety_level = READ_ONLY

\* --------------------------------------------------------------- C35
\* The sequence a is an initial part of the sequence b.
IsPrefix(a, b) == Len(a) <= Len(b) /\ SubSeq(b, 1, Len(a)) = a

\* The assistant message at a is followed by the tool messages of its
\* requests, in their order, and by no further tool message.
FollowedByItsTools(a) ==
    LET n == Len(messages[a].tool_calls)
    IN  /\ \A j \in 1 .. n : AnsweredAt(a, j)
        /\ a + n < Len(messages) => messages[a + n + 1].role # "tool"

\* Every execute_tool call comes right after the status hook of the same
\* tool call.
HookBeforeTool ==
    \A k \in 1 .. Len(tool_events) :
        tool_events[k].ev = "execute_tool" =>
            /\ k > 1
            /\ tool_events[k - 1] =
                 [ tool_events[k] EXCEPT !.ev = "on_status" ]

\* C35: the message sequence of a _run_agent invocation is append-only
\* and follows the tool-calling protocol: it starts with the system
\* prompt, the context message when there is a context, and the task;
\* every backend call receives the sequence as it stands, an extension of
\* what the call before it received; when the next backend call is made,
\* or the loop returns, every assistant message is followed by exactly
\* its tool messages in request order; and the status hook of a tool call
\* is invoked before the tool executes.
C35_MessageProtocol ==
    [][ /\ apc # "called" => IsPrefix(messages, messages')
        /\ IsPrefix(InitialMessages(role_name, context), messages')
        /\ sent' # sent => sent' = messages /\ IsPrefix(sent, sent')
        /\ apc' \in { "loop", "returned" } =>
               \A a \in AssistantPositions' : FollowedByItsTools(a)'
        /\ HookBeforeTool'
      ]_vars

\* The second backend call of an invocation with a context: it received
\* the three initial messages, then the assistant message of the first
\* round and the tool messages of its two requests, each tool run after
\* its status hook.
C35_Witness ==
    /\ calls = 2
    /\ context # ""
    /\ Len(sent) = 6
    /\ sent[2].role = "system"
    /\ sent[3].role = "user"
    /\ sent[4].role = "assistant"
    /\ sent[6].role = "tool"
    /\ Len(tool_events) >= 4
    /\ tool_events[3].ev = "on_status"
    /\ tool_events[4].ev = "execute_tool"

\* --------------------------------------------------------------- C36
\* The workers whose _run_single went through its on_agent_done call and
\* returned: the worker was not turned away by the flag at its start, and
\* neither the "Done" status callback nor on_agent_done raised.
Reported == { i \in Workers : /\ wpc[i] = "done"
                              /\ future[i] = "result"
                              /\ ~ sawCancel[i] }

\* C36: in every run, each role whose completion was reported to the
\* caller through on_agent_done has its outcome, with the same text, in the
\* outcome set of the result that run returns, cancelled results included.
C36_ReportedRolesReturned ==
    RunReturned =>
        \A i \in Reported : Holds(result.agent_outputs, i)

\* --------------------------------------------------------------- C37
\* The invocation of thread t has returned.
HasReturned(t) == lpc[t] = "idle" /\ invoked[t] # "<none>"

\* C37: execute_tool never raises: an unknown tool name, and an exception
\* inside the tool, give a result with success false and an error text;
\* and the entries of the log are as many as the invocations that returned
\* since the last clear, also when the workers call concurrently.
C37_EveryCallLogged ==
    /\ Len(_entries) = invocations
    /\ \A t \in Threads :
         /\ lpc[t] \in { "idle", "func", "log" }
         /\ ( HasReturned(t)
              /\ ( invoked[t] \notin ToolNames
                   \/ func_outcome[t] = "raises" ) ) =>
                /\ ~ tool_returned[t].success
                /\ "error" \in DOMAIN tool_returned[t]

\* Two workers called concurrently, one an unknown tool and one a tool
\* that raised; both calls returned and the log holds both.
C37_Witness ==
    /\ HasReturned(1) /\ invoked[1] = UnknownTool
    /\ HasReturned(2) /\ func_outcome[2] = "raises"
    /\ Len(_entries) = 2
    /\ _entries[1].tool = "read_file"
    /\ _entries[2].tool = UnknownTool

\* --------------------------------------------------------------- C38
\* The credential at the 0-based index i of the list.
Credential(i) == api_keys[i + 1]

\* The backend calls of the collectors, and the catalog calls, so far.
CollectorCalls == { j \in 1 .. Len(events) : events[j].ev = "call" }
CatalogCalls == { j \in 1 .. Len(events) : events[j].ev = "catalog" }

\* C38: in run_research_loop the collector of round r (1-based) uses the
\* credential api_keys[r mod K], so that the first round uses the index
\* 1 mod K and not 0, while every catalog call uses api_keys[0]; the
\* assignment depends on the number of the round and on K alone.
C38_CollectorCredential ==
    /\ \A j \in CollectorCalls :
          events[j].key = Credential(events[j].n % Len(api_keys))
    /\ \A j \in CatalogCalls : events[j].key = Credential(0)

\* Two credentials, two rounds: the first collector used the second
\* credential, the second collector the first, as did a catalog call.
C38_Witness ==
    /\ Len(api_keys) = 2
    /\ Credential(0) # Credential(1)
    /\ \E a, b \in CollectorCalls, c \in CatalogCalls :
          /\ events[a].n = 1 /\ events[a].key = Credential(1)
          /\ events[b].n = 2 /\ events[b].key = Credential(0)
          /\ events[c].n = 1 /\ events[c].key = Credential(0)

\* --------------------------------------------------------------- C39
\* The loop has returned its dict, the master index written.
LoopReturned == rpc = "returned" /\ rresult.kind = "dict"

\* The rounds whose catalog file was written and recorded.
CatalogRounds ==
    { n \in 1 .. MaxRounds :
        \E j \in 1 .. Len(files_created) : files_created[j] = RoundPath(n) }

\* C39: the 'Total rounds' number written in the master index equals the
\* total_rounds value that run_research_loop returns, and both equal the
\* number of rounds whose catalog file was persisted; raw-data files and
\* the index itself are not counted as rounds.
C39_TotalRoundsAgree ==
    LoopReturned =>
        /\ IndexTotalRounds = rresult.total_rounds
        /\ rresult.total_rounds = Cardinality(CatalogRounds)

\* --------------------------------------------------------------- C40
\* The strings that are blank, and the list the caller gave.
BlankKeys == { "", "  " }
GivenList == IF given_keys.isNone THEN << >> ELSE given_keys.keys

\* The keys of the given list that are not blank, in the order given.
RECURSIVE Usable(_)
Usable(l) ==
    IF l = << >> THEN << >>
    ELSE IF Head(l) \in BlankKeys THEN Usable(Tail(l))
    ELSE << Head(l) >> \o Usable(Tail(l))

\* C40: a MiniGrokSwarm exists only with a usable credential list: the
\* construction raises ValueError when no key that is not blank is given,
\* and otherwise api_keys is not empty, holds no blank entry and keeps the
\* given order for the whole life of the object, whatever run,
\* run_research_loop and cancel do, so that i mod K is always defined.
C40_UsableCredentials ==
    /\ opc = "raised" <=> ( opc # "new" /\ Usable(GivenList) = << >> )
    /\ opc = "constructed" =>
          /\ api_keys # << >>
          /\ \A j \in 1 .. Len(api_keys) : api_keys[j] \notin BlankKeys
          /\ api_keys = Usable(GivenList)
          /\ \A i \in 0 .. MaxRoles : KeyAt(api_keys, i) \in GivenKeys

\* A list with a blank between two keys: the object holds the two keys in
\* their order after a research loop that was cancelled has returned.
C40_Witness ==
    /\ opc = "constructed"
    /\ given_keys.keys = << " xai-2 ", "  ", "xai-1" >>
    /\ api_keys = << " xai-2 ", "xai-1" >>
    /\ rpc = "returned"
    /\ _cancelled

====
